---- MODULE Spec2Model ----
(***************************************************************************)
(* The ClickHouse normalize path of PeerDB (connectors/clickhouse          *)
(* normalize.go): NormalizeRecords, its stage loader, its planner, its     *)
(* worker pool and the catalog batch pointers, together with the raw       *)
(* table, the destination tables and the merge of the destination engine.  *)
(***************************************************************************)
EXTENDS Integers, Sequences, FiniteSets, Bags, TLC

(***************************************************************************)
(* Bounds of the model.                                                    *)
(***************************************************************************)
MaxBatch == 2
MaxInvocations == 2
MaxParallel == 2
MaxParts == 2
IntBits == 4

(***************************************************************************)
(* Int64 arithmetic of the destination, kept at IntBits bits.              *)
(***************************************************************************)
MinInt == 0 - 2 ^ (IntBits - 1)
Wrap(x) == ((x - MinInt) % (2 ^ IntBits)) + MinInt

Max2(a, b) == IF a >= b THEN a ELSE b
Min2(a, b) == IF a <= b THEN a ELSE b

(***************************************************************************)
(* The flow's configuration: req.TableNameSchemaMapping and                *)
(* req.TableMappings.  "orders" has no table mapping, "events" has one     *)
(* that selects the plain MergeTree engine and carries a bytes column,     *)
(* "audit" is a destination table name that is not in the schema mapping.  *)
(***************************************************************************)
AllTables == {"orders", "events", "audit"}
SchemaTables == {"orders", "events"}

NoMapping ==
    [SourceTableIdentifier |-> "", DestinationTableIdentifier |-> "",
     Exclude |-> {}, Columns |-> << >>, Engine |-> ""]
TableMappings ==
    << [NoMapping EXCEPT !.SourceTableIdentifier = "public.events",
                         !.DestinationTableIdentifier = "events",
                         !.Engine = "CH_ENGINE_MERGE_TREE"] >>

TableNameSchemaMapping ==
    [t \in SchemaTables |->
        IF t = "orders"
        THEN << [Name |-> "id", Type |-> "int32"], [Name |-> "v", Type |-> "string"] >>
        ELSE << [Name |-> "id", Type |-> "int32"], [Name |-> "v", Type |-> "bytes"] >>]

\* for _, tm := range TableMappings { if tm.DestinationTableIdentifier == tbl ... break }
FindTableMapping(tbl) ==
    LET hits == {i \in 1..Len(TableMappings) :
                    TableMappings[i].DestinationTableIdentifier = tbl}
    IN  IF hits = {} THEN NoMapping
        ELSE TableMappings[CHOOSE i \in hits : \A j \in hits : i <= j]

HasBytesColumn(tbl) ==
    \E i \in 1..Len(TableNameSchemaMapping[tbl]) :
        TableNameSchemaMapping[tbl][i].Type = "bytes"

\* The engine clause of the destination DDL.
EngineNilIsMergeTree(tm) ==
    IF tm = NoMapping THEN "MergeTree"
    ELSE IF tm.Engine = "CH_ENGINE_MERGE_TREE" THEN "MergeTree"
    ELSE "ReplacingMergeTree"
Engine(tm) ==
    IF tm = NoMapping THEN "ReplacingMergeTree"
    ELSE IF tm.Engine = "CH_ENGINE_MERGE_TREE" THEN "MergeTree"
    ELSE "ReplacingMergeTree"

(***************************************************************************)
(* Raw change records.  mkey = 0 stands for _peerdb_match_data = ''.       *)
(* The sync stage stages batch b as one of the files of BatchMenu(b).      *)
(* Odd and even batches draw from different files.                         *)
(***************************************************************************)
RawRow(uid, tbl, b, typ, ts, key, val, mkey, mval) ==
    [uid |-> uid, tbl |-> tbl, batch |-> b, typ |-> typ, ts |-> ts,
     key |-> key, val |-> val, mkey |-> mkey, mval |-> mval]

BatchMenu(b) ==
    LET u1 == 2 * b - 1
        u2 == 2 * b
        t1 == 2 * b - 1
        t2 == 2 * b
    IN  IF b % 2 = 1
        THEN { \* an insert, then an update that moves the row to another key
               { RawRow(u1, "orders", b, 0, t1, 1, "x", 0, ""),
                 RawRow(u2, "orders", b, 1, t2, 2, "x", 1, "x") },
               \* two destination tables; the delete carries its pre-image
               { RawRow(u1, "events", b, 0, t1, 1, "x", 0, ""),
                 RawRow(u2, "orders", b, 2, t2, 1, "", 1, "x") } }
        ELSE { \* a table that is not in the schema mapping, and a
               \* key-changing update at the smallest timestamp
               { RawRow(u1, "audit", b, 0, t1, 1, "x", 0, ""),
                 RawRow(u2, "events", b, 1, MinInt, 2, "y", 1, "x") },
               \* only a table that is not in the schema mapping
               { RawRow(u1, "audit", b, 0, t1, 1, "x", 0, "") } }

\* cityHash64 of ClickHouse on the uids of the model: a fixed scrambling.
cityHash64(uid) == (uid * 11 + 3) % 16

(***************************************************************************)
(* The planner's INSERT ... SELECT, as the rows it selects and the rows    *)
(* it inserts.                                                             *)
(***************************************************************************)
\* WHERE _peerdb_batch_id > norm AND _peerdb_batch_id <= sync
InWindowExclusiveEnd(b, norm, sync) == b > norm /\ b < sync
InWindow(b, norm, sync) == b > norm /\ b <= sync

\* AND cityHash64(_peerdb_uid) % numParts = numPart, only when numParts > 1
PartPredicateAtMost(uid, parts, part) ==
    parts > 1 => cityHash64(uid) % parts <= part
PartPredicate(uid, parts, part) ==
    parts > 1 => cityHash64(uid) % parts = part

\* _peerdb_timestamp - 1 AS _peerdb_version, in Int64
TombstoneVersion(ts) == Wrap(ts - 1)

\* projection: the columns from _peerdb_data, intDiv(_peerdb_record_type, 2), _peerdb_timestamp
ImageVersionFromBatch(r) ==
    [key |-> r.key, val |-> r.val, del |-> r.typ \div 2, ver |-> r.batch]
Image(r) ==
    [key |-> r.key, val |-> r.val, del |-> r.typ \div 2, ver |-> r.ts]
\* projectionUpdate: the columns from _peerdb_match_data, 1, _peerdb_timestamp - 1
Tombstone(r) ==
    [key |-> r.mkey, val |-> r.mval, del |-> 1, ver |-> TombstoneVersion(r.ts)]

Plan(tbl, part, parts, norm, sync, pu) ==
    [tbl |-> tbl, part |-> part, parts |-> parts, norm |-> norm, sync |-> sync, pu |-> pu]
NoPlan == Plan("", 0, 0, 0, 0, FALSE)

MainRows(rawT, p) ==
    {r \in rawT : /\ InWindow(r.batch, p.norm, p.sync)
                  /\ r.tbl = p.tbl
                  /\ PartPredicate(r.uid, p.parts, p.part)}
TombRows(rawT, p) ==
    {r \in rawT : /\ r.mkey # 0
                  /\ InWindow(r.batch, p.norm, p.sync)
                  /\ r.tbl = p.tbl
                  /\ r.typ = 1
                  /\ PartPredicate(r.uid, p.parts, p.part)}

RECURSIVE ImagesBag(_, _)
ImagesBag(S, tomb) ==
    IF S = {} THEN EmptyBag
    ELSE LET r == CHOOSE x \in S : TRUE
         IN  SetToBag({IF tomb THEN Tombstone(r) ELSE Image(r)})
                (+) ImagesBag(S \ {r}, tomb)

\* the rows one execution of the plan inserts into its destination table
PlanInserts(rawT, p) ==
    ImagesBag(MainRows(rawT, p), FALSE)
        (+) (IF p.pu THEN ImagesBag(TombRows(rawT, p), TRUE) ELSE EmptyBag)

\* the raw rows the plan reads, by uid, for its main and its tombstone branch
PlanSources(rawT, p) ==
    {<< r.uid, FALSE >> : r \in MainRows(rawT, p)}
        \cup (IF p.pu THEN {<< r.uid, TRUE >> : r \in TombRows(rawT, p)} ELSE {})

(***************************************************************************)
(* The destination engine's merge: ReplacingMergeTree keeps, per ordering  *)
(* key, the rows of greatest version (rows that tie are all candidates,    *)
(* the engine keeps one of them); MergeTree keeps every inserted row.      *)
(***************************************************************************)
Merged(engine, bag) ==
    IF engine = "MergeTree" THEN bag
    ELSE SetToBag({r \in BagToSet(bag) :
                    \A q \in BagToSet(bag) : q.key = r.key => q.ver <= r.ver})

\* what table t holds when every plan's rows are inserted exactly once
InsertedOnce(rawT, ins, t) ==
    ImagesBag({r \in rawT : r.tbl = t /\ << r.uid, FALSE >> \in ins}, FALSE)
        (+) ImagesBag({r \in rawT : r.tbl = t /\ << r.uid, TRUE >> \in ins}, TRUE)

(***************************************************************************)
(* Errors.  A worker error names the worker that returned it.              *)
(***************************************************************************)
Err(kind, w) == [kind |-> kind, w |-> w]
NoErr == Err("nil", 0)
Canceled == Err("context canceled", 0)

(***************************************************************************)
(* The table setup: BuildProcessedSchemaMapping (flow/cmd/validate_peer.go)*)
(* and the destination DDL, as the clauses of the CREATE statement.        *)
(***************************************************************************)
MaxOrdering == 2
MaxSettings == 2

signColName == "_peerdb_is_deleted"
versionColName == "_peerdb_version"

ColumnSetting(src, dstName, ordering) ==
    [SourceName |-> src, DestinationName |-> dstName, Ordering |-> ordering]

TableSchema(cols, pkeys) == [Columns |-> cols, PrimaryKeyColumns |-> pkeys]

\* slices.Contains
SeqContains(seq, x) == \E i \in DOMAIN seq : seq[i] = x

\* the schema of one source table after the exclusion of its mapping
ProcessedEntry(tableMappings, srcTableName, tableSchema) ==
    LET hits == {i \in DOMAIN tableMappings :
                    tableMappings[i].SourceTableIdentifier = srcTableName}
    IN  IF hits = {} THEN [dst |-> "", schema |-> tableSchema]
        ELSE LET mapping == tableMappings[CHOOSE i \in hits : \A j \in hits : i <= j]
                 columns == SelectSeq(tableSchema.Columns,
                                LAMBDA column : column.Name \notin mapping.Exclude)
                 pkeys == SelectSeq(tableSchema.Columns,
                                LAMBDA column :
                                    /\ SeqContains(tableSchema.PrimaryKeyColumns, column.Name)
                                    /\ column.Name \notin mapping.Exclude)
             IN  [dst |-> mapping.DestinationTableIdentifier,
                  schema |-> IF mapping.Exclude = {} THEN tableSchema
                             ELSE TableSchema(columns,
                                      [i \in DOMAIN pkeys |-> pkeys[i].Name])]

\* sortedSourceTables is the sequence of (name, schema) in the order of the
\* names; a later source table with the same destination name overwrites
BuildProcessedSchemaMapping(tableMappings, sortedSourceTables) ==
    LET e(i) == ProcessedEntry(tableMappings, sortedSourceTables[i].name,
                               sortedSourceTables[i].schema)
        last(d) == CHOOSE i \in DOMAIN sortedSourceTables :
                      /\ e(i).dst = d
                      /\ \A j \in DOMAIN sortedSourceTables : e(j).dst = d => j <= i
    IN  [d \in {e(i).dst : i \in DOMAIN sortedSourceTables} |-> e(last(d)).schema]

\* peerdb_clickhouse.QuoteIdentifier, and a name written between backticks
QuoteIdentifier(name) == [name |-> name, quoted |-> TRUE]
\* a name written as it is
BareIdentifier(name) == [name |-> name, quoted |-> FALSE]

getColName(overrides, name) ==
    IF name \in DOMAIN overrides THEN overrides[name] ELSE name

\* for _, col := range tableMapping.Columns { if col.SourceName == colName ... break }
DstColName(tableMapping, colName) ==
    LET hits == {i \in DOMAIN tableMapping.Columns :
                    tableMapping.Columns[i].SourceName = colName}
        col == tableMapping.Columns[CHOOSE i \in hits : \A j \in hits : i <= j]
    IN  IF hits # {} /\ col.DestinationName # "" THEN col.DestinationName ELSE colName

\* colNameMap[colName] = dstColName, for the columns of the schema that are renamed
ColNameMap(tableMapping, tableSchema) ==
    LET renamed == {n \in {tableSchema.Columns[i].Name : i \in DOMAIN tableSchema.Columns} :
                      \E i \in DOMAIN tableMapping.Columns :
                          /\ tableMapping.Columns[i].SourceName = n
                          /\ \A j \in 1..(i - 1) : tableMapping.Columns[j].SourceName # n
                          /\ tableMapping.Columns[i].DestinationName # ""}
    IN  [n \in renamed |-> DstColName(tableMapping, n)]

\* slices.SortStableFunc(orderby, cmp.Compare(a.Ordering, b.Ordering))
RECURSIVE SortStableFunc(_)
SortStableFunc(seq) ==
    IF Len(seq) <= 1 THEN seq
    ELSE LET m == CHOOSE i \in DOMAIN seq :
                      \A j \in DOMAIN seq :
                          \/ seq[i].Ordering < seq[j].Ordering
                          \/ seq[i].Ordering = seq[j].Ordering /\ i <= j
         IN  << seq[m] >> \o SortStableFunc(SubSeq(seq, 1, m - 1) \o SubSeq(seq, m + 1, Len(seq)))

\* the ordering columns followed by the primary keys that are not among them
getOrderedOrderByColumnsPkeysAtEnd(tableMapping, sourcePkeys, colNameMap) ==
    LET pkeys == [i \in DOMAIN sourcePkeys |->
                    QuoteIdentifier(getColName(colNameMap, sourcePkeys[i]))]
        sorted == SortStableFunc(SelectSeq(tableMapping.Columns, LAMBDA col : col.Ordering > 0))
        cols == [i \in DOMAIN sorted |->
                    QuoteIdentifier(getColName(colNameMap, sorted[i].SourceName))]
    IN  cols \o SelectSeq(pkeys, LAMBDA pk : ~SeqContains(cols, pk))

getOrderedOrderByColumns(tableMapping, sourcePkeys, colNameMap) ==
    LET pkeys == [i \in DOMAIN sourcePkeys |->
                    QuoteIdentifier(IF DOMAIN colNameMap # {}
                                    THEN getColName(colNameMap, sourcePkeys[i])
                                    ELSE sourcePkeys[i])]
        orderby == SelectSeq(tableMapping.Columns, LAMBDA col : col.Ordering > 0)
        sorted == SortStableFunc(orderby)
    IN  IF Len(orderby) = 0 THEN pkeys
        ELSE [i \in DOMAIN sorted |->
                QuoteIdentifier(getColName(colNameMap, sorted[i].SourceName))]

\* the mapping of a destination table in a list of mappings (nil: NoMapping)
FindMappingIn(tableMappings, tableIdentifier) ==
    LET hits == {i \in DOMAIN tableMappings :
                    tableMappings[i].DestinationTableIdentifier = tableIdentifier}
    IN  IF hits = {} THEN NoMapping
        ELSE tableMappings[CHOOSE i \in hits : \A j \in hits : i <= j]

\* strings.ToLower on the configured names of the bounds
ToLower(str) ==
    CASE str = "_PEERDB_SYNCED_AT" -> "_peerdb_synced_at"
      [] str = "Synced_At" -> "synced_at"
      [] OTHER -> str

\* `colName` DateTime64(9) DEFAULT now64(), written when the name is configured
SyncedAtColumnNever(config) == << >>
SyncedAtColumn(config) ==
    IF config.SyncedAtColName # ""
    THEN << QuoteIdentifier(ToLower(config.SyncedAtColName)) >>
    ELSE << >>

\* the CREATE statement, by its clauses; defaults are the declared columns
\* that carry a DEFAULT
generateCreateTableSQLForNormalizedTable(config, tableIdentifier, tableSchema) ==
    LET tableMapping == FindMappingIn(config.TableMappings, tableIdentifier)
        orderByColumns == getOrderedOrderByColumns(tableMapping,
                              tableSchema.PrimaryKeyColumns,
                              ColNameMap(tableMapping, tableSchema))
    IN  [create |-> IF config.IsResync THEN "CREATE OR REPLACE TABLE"
                    ELSE "CREATE TABLE IF NOT EXISTS",
         table |-> tableIdentifier,
         columns |-> [i \in DOMAIN tableSchema.Columns |->
                        QuoteIdentifier(DstColName(tableMapping, tableSchema.Columns[i].Name))]
                     \o SyncedAtColumn(config)
                     \o << QuoteIdentifier(signColName), QuoteIdentifier(versionColName) >>,
         defaults |-> {SyncedAtColumn(config)[i] : i \in DOMAIN SyncedAtColumn(config)},
         engine |-> Engine(tableMapping),
         primaryKey |-> orderByColumns,
         orderBy |-> orderByColumns]

\* colSelector of a plan: the INSERT column list
ColSelector(tableMapping, schema) ==
    [i \in DOMAIN schema.Columns |->
        QuoteIdentifier(DstColName(tableMapping, schema.Columns[i].Name))]
        \o << QuoteIdentifier(signColName), BareIdentifier(versionColName) >>

\* projection of a plan: JSONExtract(_peerdb_data, colName, type) AS dstColName
Projection(tableMapping, schema) ==
    [i \in DOMAIN schema.Columns |->
        [from |-> schema.Columns[i].Name,
         as |-> QuoteIdentifier(DstColName(tableMapping, schema.Columns[i].Name))]]
        \o << [from |-> "_peerdb_record_type", as |-> QuoteIdentifier(signColName)],
              [from |-> "_peerdb_timestamp", as |-> QuoteIdentifier(versionColName)] >>

(***************************************************************************)
(* State.                                                                  *)
(*   lastSync, lastNorm  the catalog's batch pointers of the flow          *)
(*   raw                 the raw table: the rows of the staged files that  *)
(*                       have been loaded                                  *)
(*   dest                the destination tables, as bags of rows           *)
(*   env                 req.Env: the configured parallelism, parts and    *)
(*                       primary-update switch                             *)
(*   ninv                the number of invocations started so far          *)
(*   co                  the coordinator: the running NormalizeRecords     *)
(*   invs                per invocation: the plan channel and the contexts *)
(*   workers             the goroutines of group.Go that have not returned *)
(*   ret                 what the last invocation returned                 *)
(*   inserted            the raw rows whose image (FALSE) or tombstone     *)
(*                       (TRUE) some executed plan has inserted            *)
(*   covered             how often each batch id has been in the range     *)
(*                       returned by a successful invocation that had work *)
(*   cfg                 the input of the table setup: table mappings,     *)
(*                       source schema                                     *)
(*   db                  the destination database: the normalized table    *)
(*   setup               what the last SetupNormalizedTable did            *)
(*   processed           the arguments of BuildProcessedSchemaMapping,     *)
(*                       its result, and the arguments as the call left    *)
(*                       them                                              *)
(*   stream              a QRecordStream: its fields, and how often each   *)
(*                       of its channels has been closed                   *)
(*   procs               the goroutines that use the stream                *)
(*   alerting            the alerts catalog, the clock and the calls of    *)
(*                       the alerter                                       *)
(***************************************************************************)
VARIABLES lastSync, lastNorm, raw, dest, env, ninv, co, invs, workers,
          ret, inserted, covered, cfg, db, setup, processed,
          stream, procs, alerting

normVars == << lastSync, lastNorm, raw, dest, env, ninv, co, invs, workers,
               ret, inserted, covered >>
setupVars == << cfg, db, setup, processed >>
sideVars == << stream, procs, alerting >>
vars == << normVars, setupVars, sideVars >>

IdleCo ==
    [pc |-> "idle", id |-> 0, sync |-> 0, norm |-> 0, norm0 |-> 0, next |-> 0,
     tables |-> << >>, parts |-> 0, pu |-> FALSE, k |-> 0,
     loaded |-> << >>, queried |-> FALSE, started |-> 0,
     emitted |-> {}, execOk |-> {}, planFailed |-> FALSE, late |-> FALSE]

\* closes counts the close(queries) calls and sentClosed records a send on
\* the closed channel: either panics in the program
NoInv ==
    [closed |-> FALSE, gerr |-> NoErr, cause |-> NoErr, closes |-> 0,
     sentClosed |-> FALSE]

\* close(queries)
CloseQueries(inv) == [inv EXCEPT !.closed = TRUE, !.closes = @ + 1]

NoRet ==
    [kind |-> "none", err |-> NoErr, start |-> 0, end |-> 0,
     norm |-> 0, norm0 |-> 0, sync |-> 0, gerr |-> NoErr, cause |-> NoErr,
     worked |-> FALSE, loadedAll |-> FALSE, nplans |-> 0, complete |-> FALSE,
     planFailed |-> FALSE, nloaded |-> 0]

Worker(inv, idx, pc, plan) == [inv |-> inv, idx |-> idx, pc |-> pc, plan |-> plan]

\* the table setup at rest
NoCfg == [TableMappings |-> << >>, schema |-> TableSchema(<< >>, << >>)]
NoTable == [columns |-> << >>, engine |-> "", primaryKey |-> << >>, orderBy |-> << >>]
NoStmt ==
    [create |-> "", table |-> "", columns |-> << >>, defaults |-> {}, engine |-> "",
     primaryKey |-> << >>, orderBy |-> << >>]
\* the components that a specification does not run
NoStream == [made |-> FALSE]
NoProcs == << >>
NoAlerting == [made |-> FALSE]

NoProcessed ==
    [called |-> FALSE, tableMappings |-> << >>, tableNameSchemaMapping |-> << >>,
     result |-> << >>, after |-> << >>]
NoSetup ==
    [called |-> FALSE, existed |-> FALSE, err |-> NoErr, isResync |-> FALSE,
     syncedAtColName |-> "", existedBefore |-> FALSE, stmt |-> NoStmt, unchanged |-> TRUE]

Init ==
    /\ lastSync = 0
    /\ lastNorm = 0
    /\ raw = {}
    /\ dest = [t \in AllTables |-> EmptyBag]
    /\ env \in [par : 1..MaxParallel, parts : 1..MaxParts, pu : BOOLEAN]
    /\ ninv = 0
    /\ co = IdleCo
    /\ invs = [i \in 1..MaxInvocations |-> NoInv]
    /\ workers = {}
    /\ ret = NoRet
    /\ inserted = {}
    /\ covered = [b \in 1..MaxBatch |-> 0]
    /\ cfg = NoCfg
    /\ db = NoTable
    /\ setup = NoSetup
    /\ processed = NoProcessed
    /\ stream = NoStream
    /\ procs = NoProcs
    /\ alerting = NoAlerting

\* the channel and the contexts of an invocation are gone once it has
\* returned and none of its goroutines is left
Settle(is, ws, c) ==
    [i \in DOMAIN is |->
        IF c.id = i THEN is[i]
        ELSE IF \E w \in ws : w.inv = i THEN [is[i] EXCEPT !.gerr = NoErr]
        ELSE NoInv]

(***************************************************************************)
(* The sync stage (external): stages the next batch and bumps              *)
(* last_sync_batch_id.  The staged file is read by the stage loader only,  *)
(* so its content (one of BatchMenu) enters the state with its first load. *)
(***************************************************************************)
SyncBatch ==
    /\ lastSync < MaxBatch
    /\ lastSync' = lastSync + 1
    /\ UNCHANGED << lastNorm, raw, dest, env, ninv, co, invs, workers, ret, inserted, covered >>
    /\ UNCHANGED << setupVars, sideVars >>

(***************************************************************************)
(* NormalizeRecords, the coordinator's side.                               *)
(***************************************************************************)
\* if normBatchID >= req.SyncBatchID
CaughtUpNever(norm, sync) == FALSE
CaughtUpStrict(norm, sync) == norm > sync
CaughtUp(norm, sync) == norm >= sync

\* StartBatchID: normBatchID + 1
StartBatchIDNoIncrement(norm) == norm
StartBatchID(norm) == norm + 1

\* UpdateNormalizeBatchID(ctx, req.FlowJobName, req.SyncBatchID)
NewNormPointerNextBatch(sync) == sync + 1
NewNormPointer(sync) == sync

\* group.Wait() returns once every goroutine of the group has returned ...
AllWorkersDoneNoWait(i) == TRUE
AllWorkersDone(i) == ~ \E w \in workers : w.inv = i

\* ... and returns the first non-nil error of the group
WaitErrorIgnored(i) == NoErr
WaitError(i) == invs[i].gerr

\* the catalog pointer after group.Wait and UpdateNormalizeBatchID
PointerAfterFinishUpdateFirst(old, sync, waitErr, updOk) ==
    IF updOk THEN NewNormPointer(sync) ELSE old
PointerAfterFinish(old, sync, waitErr, updOk) ==
    IF waitErr = NoErr /\ updOk THEN NewNormPointer(sync) ELSE old

\* the k-th plan of the loops over destinationTableNames and numParts
NumPlans(c) == Len(c.tables) * c.parts
PlanAtFirstPart(c, k) ==
    Plan(c.tables[((k - 1) \div c.parts) + 1], 0,
         c.parts, c.norm, c.sync, c.pu)
PlanAt(c, k) ==
    Plan(c.tables[((k - 1) \div c.parts) + 1], (k - 1) % c.parts,
         c.parts, c.norm, c.sync, c.pu)
AllPlans(c) == {PlanAt(c, k) : k \in 1..NumPlans(c)}

\* what an invocation leaves behind when it returns
Return(c, kind, err, start, end, inv) ==
    [kind |-> kind, err |-> err, start |-> start, end |-> end,
     norm |-> c.norm, norm0 |-> c.norm0, sync |-> c.sync,
     gerr |-> inv.gerr, cause |-> inv.cause,
     worked |-> c.loaded # << >> \/ c.queried \/ c.started > 0 \/ c.emitted # {},
     loadedAll |-> c.loaded = [i \in 1..(c.sync - c.norm) |-> c.norm + i],
     nplans |-> Cardinality(c.emitted),
     complete |-> /\ c.pc = "wait"
                  /\ c.emitted = AllPlans(c)
                  /\ c.execOk = c.emitted
                  /\ ~ \E w \in workers : w.inv = c.id,
     planFailed |-> c.planFailed,
     nloaded |-> Len(c.loaded)]

\* A goroutine that an invocation left behind (it returned without
\* group.Wait) can still take a step.  Such goroutines touch the destination
\* tables only, which no coordinator reads, so their steps commute with every
\* step of a later invocation: the next request is taken up once they have
\* run out.  A goroutine blocked for ever on a channel that is never closed
\* does not hold it up.
OrphanCanStep ==
    \E w \in workers : w.inv # co.id /\ (w.pc # "recv" \/ invs[w.inv].closed)

\* for s := normBatchID + 1; s <= syncBatchID; s++
FirstStageSame(normBatchID) == normBatchID
FirstStage(normBatchID) == normBatchID + 1
NextStageSkips(s) == s + 2
NextStage(s) == s + 1

\* GetLastNormalizeBatchID and the caught-up check.  The request carries a
\* last_sync_batch_id the catalog held when the request was made.
StartInvocation ==
    /\ co.pc = "idle"
    /\ ninv < MaxInvocations
    /\ ninv' = ninv + 1
    /\ \E s \in 0..lastSync, readOk \in BOOLEAN :
          LET c == [IdleCo EXCEPT !.id = ninv + 1, !.sync = s, !.norm0 = lastNorm,
                                  !.norm = IF readOk THEN lastNorm ELSE 0 - 1]
          IN  IF ~readOk
              THEN /\ ret' = Return(c, "err", Err("catalog read", 0), 0, 0, NoInv)
                   /\ co' = IdleCo
              ELSE IF CaughtUp(lastNorm, s)
              THEN /\ ret' = Return(c, "ok", NoErr, lastNorm, s, NoInv)
                   /\ co' = IdleCo
              ELSE /\ co' = [c EXCEPT !.pc = "load", !.next = FirstStage(lastNorm)]
                   /\ ret' = NoRet
    /\ UNCHANGED << lastSync, lastNorm, raw, dest, env, invs, workers, inserted, covered >>
    /\ UNCHANGED << setupVars, sideVars >>

\* the next request, taken up once the goroutines left behind have run out
Start ==
    /\ ~OrphanCanStep
    /\ StartInvocation

\* The caller's context is cancelled while the invocation runs.  Once a
\* worker error has cancelled errCtx, or the invocation has returned, a
\* cancellation only makes calls fail that can fail anyway.
Cancelled(i) == invs[i].cause = Canceled

Cancel ==
        /\ co.pc # "idle"
        /\ invs[co.id].cause = NoErr
        /\ invs' = [invs EXCEPT ![co.id].cause = Canceled]
        /\ UNCHANGED << lastSync, lastNorm, raw, dest, env, ninv, co, workers,
                        ret, inserted, covered >>
        /\ UNCHANGED << setupVars, sideVars >>

\* GetAvroStage: the file staged for batch s; loading it again brings the same rows
StagedFiles(rawT, s) ==
    IF \E r \in rawT : r.batch = s
    THEN {{r \in rawT : r.batch = s}}
    ELSE BatchMenu(s)

\* copyAvroStagesToDestination: one pass of its loop
LoadStage ==
    /\ co.pc = "load"
    /\ co.next <= co.sync
    /\ \E ok \in BOOLEAN :
          /\ Cancelled(co.id) => ~ok
          /\ IF ok
             THEN /\ \E file \in StagedFiles(raw, co.next) : raw' = raw \cup file
                  /\ co' = [co EXCEPT !.next = NextStage(@), !.loaded = Append(@, co.next)]
                  /\ UNCHANGED << ret, invs >>
             ELSE /\ ret' = Return(co, "err", Err("stage load", 0), 0, 0, invs[co.id])
                  /\ co' = IdleCo
                  /\ invs' = Settle(invs, workers, IdleCo)
                  /\ raw' = raw
    /\ UNCHANGED << lastSync, lastNorm, dest, env, ninv, workers, inserted, covered >>
    /\ UNCHANGED << setupVars, sideVars >>

\* getDistinctTableNamesInBatch: the table names of the window that are keys
\* of the schema mapping (the others are logged and skipped)
DistinctTableNamesUnfiltered(rawT, norm, sync) ==
    {t \in AllTables : \E r \in rawT : InWindow(r.batch, norm, sync) /\ r.tbl = t}
DistinctTableNames(rawT, norm, sync) ==
    {t \in SchemaTables : \E r \in rawT : InWindow(r.batch, norm, sync) /\ r.tbl = t}

\* the orders in which the DISTINCT query can return them
Orderings(S) ==
    {q \in [1..Cardinality(S) -> S] : \A i, j \in DOMAIN q : i # j => q[i] # q[j]}

\* parallelNormalize = min(max(parallelNormalize, 1), len(destinationTableNames))
ParallelNormalizeUnclamped(par, ntables) == Max2(par, 1)
ParallelNormalize(par, ntables) == Min2(Max2(par, 1), ntables)

\* numParts = max(numParts, 1); a failed read of the setting counts as 1
NumParts(parts, readOk) == Max2(IF readOk THEN parts ELSE 1, 1)

\* for i := range parallelNormalize { group.Go(...) }: worker 0 uses c.database
Spawn(inv, n) ==
    {Worker(inv, i, IF i = 0 THEN "recv" ELSE "connect", NoPlan) : i \in 0..(n - 1)}

\* from the table enumeration to the start of the workers
Setup ==
    /\ co.pc = "load"
    /\ co.next > co.sync
    /\ \E outcome \in {"ok", "tables error", "config error", "parts error"} :
          /\ Cancelled(co.id) => outcome = "tables error"
          /\ IF outcome \in {"tables error", "config error"}
             THEN /\ ret' = Return([co EXCEPT !.queried = TRUE], "err",
                                   Err(outcome, 0), 0, 0, invs[co.id])
                  /\ co' = IdleCo
                  /\ workers' = workers
                  /\ invs' = Settle(invs, workers, IdleCo)
             ELSE \E tables \in Orderings(DistinctTableNames(raw, co.norm, co.sync)) :
                    LET n == ParallelNormalize(env.par, Len(tables))
                    IN  /\ co' = [co EXCEPT !.pc = "produce", !.tables = tables,
                                            !.parts = NumParts(env.parts, outcome = "ok"),
                                            !.pu = env.pu, !.k = 1,
                                            !.queried = TRUE, !.started = n]
                        /\ workers' = workers \cup Spawn(co.id, n)
                        /\ UNCHANGED << ret, invs >>
    /\ UNCHANGED << lastSync, lastNorm, raw, dest, env, ninv, inserted, covered >>
    /\ UNCHANGED << setupVars, sideVars >>

\* whether the planner closes the channel before it returns the error
ClosesQueriesNever(kind) == FALSE
ClosesQueries(kind) == kind = "type conversion"

\* ToDWHColumnType fails: close(queries) and return; PeerDBBinaryFormat
\* fails (only read for a bytes column): return
BuildPlanFails ==
    /\ co.pc = "produce"
    /\ co.k <= NumPlans(co)
    /\ \E kind \in {"type conversion", "binary format"} :
          /\ kind = "binary format" => HasBytesColumn(PlanAt(co, co.k).tbl)
          /\ invs' = Settle([invs EXCEPT ![co.id] = IF ClosesQueries(kind)
                                                    THEN CloseQueries(@) ELSE @],
                            workers, IdleCo)
          /\ ret' = Return(co, "err", Err(kind, 0), 0, 0, invs[co.id])
    /\ co' = IdleCo
    /\ UNCHANGED << lastSync, lastNorm, raw, dest, env, ninv, workers, inserted, covered >>
    /\ UNCHANGED << setupVars, sideVars >>

\* select { case queries <- plan: ... }: a worker blocked in range queries takes it
ProducerSend ==
    /\ co.pc = "produce"
    /\ co.k <= NumPlans(co)
    /\ \E w \in workers :
          /\ w.inv = co.id
          /\ w.pc = "recv"
          /\ workers' = (workers \ {w}) \cup {[w EXCEPT !.pc = "exec", !.plan = PlanAt(co, co.k)]}
    /\ co' = [co EXCEPT !.k = @ + 1, !.emitted = @ \cup {PlanAt(co, co.k)},
                         !.late = @ \/ invs[co.id].cause # NoErr]
    /\ invs' = [invs EXCEPT ![co.id].sentClosed = @ \/ invs[co.id].closed]
    /\ UNCHANGED << lastSync, lastNorm, raw, dest, env, ninv, ret, inserted, covered >>
    /\ UNCHANGED << setupVars, sideVars >>

\* case <-errCtx.Done(): a worker has returned an error, or the caller's
\* context is cancelled
ErrCtxDoneNever(i) == FALSE
ErrCtxDone(i) == invs[i].cause # NoErr

\* select { ... case <-errCtx.Done(): close(queries); return context.Cause(errCtx) }
ProducerCancelled ==
    /\ co.pc = "produce"
    /\ co.k <= NumPlans(co)
    /\ ErrCtxDone(co.id)
    /\ invs' = Settle([invs EXCEPT ![co.id] = CloseQueries(@)], workers, IdleCo)
    /\ ret' = Return(co, "err", invs[co.id].cause, 0, 0, invs[co.id])
    /\ co' = IdleCo
    /\ UNCHANGED << lastSync, lastNorm, raw, dest, env, ninv, workers, inserted, covered >>
    /\ UNCHANGED << setupVars, sideVars >>

\* after close(queries) the producer is at group.Wait
AfterCloseKeepsProducing(c) == c
AfterClose(c) == [c EXCEPT !.pc = "wait"]

\* close(queries) after the loops
ProducerClose ==
    /\ co.pc = "produce"
    /\ co.k > NumPlans(co)
    /\ invs' = [invs EXCEPT ![co.id] = CloseQueries(@)]
    /\ co' = AfterClose(co)
    /\ UNCHANGED << lastSync, lastNorm, raw, dest, env, ninv, workers, ret, inserted, covered >>
    /\ UNCHANGED << setupVars, sideVars >>

\* c.UpdateNormalizeBatchID(ctx, ...): whether the catalog write can succeed;
\* it fails on a context that is cancelled
UpdateNormalizeBatchIDIgnoresContext(i) == BOOLEAN
UpdateNormalizeBatchID(i) == IF Cancelled(i) THEN {FALSE} ELSE BOOLEAN

\* group.Wait, UpdateNormalizeBatchID and the return
Finish ==
    /\ co.pc = "wait"
    /\ AllWorkersDone(co.id)
    /\ \E updOk \in UpdateNormalizeBatchID(co.id) :
          LET e == WaitError(co.id)
          IN  /\ lastNorm' = PointerAfterFinish(lastNorm, co.sync, e, updOk)
              /\ ret' = IF e # NoErr
                        THEN Return(co, "err", e, 0, 0, invs[co.id])
                        ELSE IF ~updOk
                        THEN Return(co, "err", Err("catalog write", 0), 0, 0, invs[co.id])
                        ELSE Return(co, "ok", NoErr, StartBatchID(co.norm), co.sync,
                                    invs[co.id])
    /\ covered' = IF ret'.kind = "ok"
                  THEN [b \in DOMAIN covered |->
                          covered[b] + IF ret'.start <= b /\ b <= ret'.end THEN 1 ELSE 0]
                  ELSE covered
    /\ co' = IdleCo
    /\ invs' = Settle(invs, workers, IdleCo)
    /\ UNCHANGED << lastSync, raw, dest, env, ninv, workers, inserted >>
    /\ UNCHANGED << setupVars, sideVars >>

(***************************************************************************)
(* NormalizeRecords, the workers' side.                                    *)
(***************************************************************************)
\* errgroup: the first error is kept and cancels errCtx with it
FirstError(old, e) == IF old = NoErr THEN e ELSE old

\* the goroutines left when one of them returns from its function
AfterReturnKeepsReceiving(ws, w) ==
    (ws \ {w}) \cup {[w EXCEPT !.pc = "recv", !.plan = NoPlan]}
AfterReturn(ws, w) == ws \ {w}

\* a goroutine of the group returns (its deferred chConn.Close() runs)
WorkerReturns(w, e) ==
    /\ workers' = AfterReturn(workers, w)
    /\ invs' = Settle(IF e = NoErr THEN invs
                      ELSE [invs EXCEPT ![w.inv].gerr = FirstError(@, e),
                                        ![w.inv].cause = FirstError(@, e)],
                      AfterReturn(workers, w), co)

\* Connect(errCtx, req.Env, c.config), workers 1..P-1
WorkerConnect ==
    /\ \E w \in workers, ok \in BOOLEAN :
          /\ w.pc = "connect"
          /\ invs[w.inv].cause # NoErr => ~ok
          /\ IF ok
             THEN /\ workers' = (workers \ {w}) \cup {[w EXCEPT !.pc = "recv"]}
                  /\ invs' = invs
             ELSE WorkerReturns(w, Err("connect", w.idx))
    /\ UNCHANGED << lastSync, lastNorm, raw, dest, env, ninv, co, ret, inserted, covered >>
    /\ UNCHANGED << setupVars, sideVars >>

\* c.execWithConnection(ctx, chConn, query)
WorkerExec ==
    /\ \E w \in workers, ok \in BOOLEAN :
          /\ w.pc = "exec"
          /\ Cancelled(w.inv) => ~ok
          /\ IF ok
             THEN /\ dest' = [dest EXCEPT ![w.plan.tbl] = @ (+) PlanInserts(raw, w.plan)]
                  /\ inserted' = inserted \cup PlanSources(raw, w.plan)
                  /\ workers' = (workers \ {w}) \cup {[w EXCEPT !.pc = "recv", !.plan = NoPlan]}
                  /\ invs' = invs
                  /\ co' = IF w.inv = co.id THEN [co EXCEPT !.execOk = @ \cup {w.plan}] ELSE co
             ELSE /\ WorkerReturns(w, Err("insert", w.idx))
                  /\ co' = IF w.inv = co.id THEN [co EXCEPT !.planFailed = TRUE] ELSE co
                  /\ UNCHANGED << dest, inserted >>
    /\ UNCHANGED << lastSync, lastNorm, raw, env, ninv, ret, covered >>
    /\ UNCHANGED << setupVars, sideVars >>

\* range queries ends: the channel is closed
WorkerExit ==
    /\ \E w \in workers :
          /\ w.pc = "recv"
          /\ invs[w.inv].closed
          /\ WorkerReturns(w, NoErr)
    /\ UNCHANGED << lastSync, lastNorm, raw, dest, env, ninv, co, ret, inserted, covered >>
    /\ UNCHANGED << setupVars, sideVars >>

Next ==
    \/ SyncBatch
    \/ Start
    \/ Cancel
    \/ LoadStage
    \/ Setup
    \/ BuildPlanFails
    \/ ProducerSend
    \/ ProducerCancelled
    \/ ProducerClose
    \/ Finish
    \/ WorkerConnect
    \/ WorkerExec
    \/ WorkerExit

Spec == Init /\ [][Next]_vars

(***************************************************************************)
(* The same flow when the next request is taken up as soon as the          *)
(* invocation before it has returned, whatever its goroutines still do.    *)
(* Batch 1 has been synced and nothing is normalized yet.                  *)
(***************************************************************************)
InitOverlap ==
    /\ lastSync = 1
    /\ lastNorm = 0
    /\ raw = {}
    /\ dest = [t \in AllTables |-> EmptyBag]
    /\ env \in [par : 1..MaxParallel, parts : 1..MaxParts, pu : {FALSE}]
    /\ ninv = 0
    /\ co = IdleCo
    /\ invs = [i \in 1..MaxInvocations |-> NoInv]
    /\ workers = {}
    /\ ret = NoRet
    /\ inserted = {}
    /\ covered = [b \in 1..MaxBatch |-> 0]
    /\ cfg = NoCfg
    /\ db = NoTable
    /\ setup = NoSetup
    /\ processed = NoProcessed
    /\ stream = NoStream
    /\ procs = NoProcs
    /\ alerting = NoAlerting

NextOverlap ==
    \/ StartInvocation
    \/ Cancel
    \/ LoadStage
    \/ Setup
    \/ BuildPlanFails
    \/ ProducerSend
    \/ ProducerCancelled
    \/ ProducerClose
    \/ Finish
    \/ WorkerConnect
    \/ WorkerExec
    \/ WorkerExit

SpecOverlap == InitOverlap /\ [][NextOverlap]_vars

(***************************************************************************)
(* The same with the scheduling of the Go runtime: the goroutine of the    *)
(* coordinator and the goroutines of the workers each take their next step *)
(* when they can.  Requests and cancellations need not come.               *)
(***************************************************************************)
Coordinator ==
    \/ LoadStage
    \/ Setup
    \/ BuildPlanFails
    \/ ProducerSend
    \/ ProducerCancelled
    \/ ProducerClose
    \/ Finish

Fairness ==
    /\ WF_vars(Coordinator)
    /\ WF_vars(WorkerConnect)
    /\ WF_vars(WorkerExec)
    /\ WF_vars(WorkerExit)

SpecLive == InitOverlap /\ [][NextOverlap]_vars /\ Fairness

(***************************************************************************)
(* Invocations one at a time under the scheduling of the Go runtime,       *)
(* without any assumption on the planner: the coordinator takes its next   *)
(* step when it can load, enumerate, hand a plan to a waiting worker,      *)
(* observe the cancellation, close or finish.  That a plan fails to build  *)
(* is possible and never required.  Every batch of the bounds has been     *)
(* synced and nothing is normalized yet.                                   *)
(***************************************************************************)
InitReturns ==
    /\ lastSync = MaxBatch
    /\ lastNorm = 0
    /\ raw = {}
    /\ dest = [t \in AllTables |-> EmptyBag]
    /\ env \in [par : 1..MaxParallel, parts : 1..MaxParts, pu : {FALSE}]
    /\ ninv = 0
    /\ co = IdleCo
    /\ invs = [i \in 1..MaxInvocations |-> NoInv]
    /\ workers = {}
    /\ ret = NoRet
    /\ inserted = {}
    /\ covered = [b \in 1..MaxBatch |-> 0]
    /\ cfg = NoCfg
    /\ db = NoTable
    /\ setup = NoSetup
    /\ processed = NoProcessed
    /\ stream = NoStream
    /\ procs = NoProcs
    /\ alerting = NoAlerting

NextReturns ==
    \/ Start
    \/ Cancel
    \/ LoadStage
    \/ Setup
    \/ BuildPlanFails
    \/ ProducerSend
    \/ ProducerCancelled
    \/ ProducerClose
    \/ Finish
    \/ WorkerConnect
    \/ WorkerExec
    \/ WorkerExit

ProducerStep ==
    \/ LoadStage
    \/ Setup
    \/ ProducerSend
    \/ ProducerCancelled
    \/ ProducerClose
    \/ Finish

FairnessReturns ==
    /\ WF_vars(ProducerStep)
    /\ WF_vars(WorkerConnect)
    /\ WF_vars(WorkerExec)
    /\ WF_vars(WorkerExit)

SpecReturns == InitReturns /\ [][NextReturns]_vars /\ FairnessReturns

(***************************************************************************)
(* The scenarios S1 and S2 of the specification, generalised: batch 1 of   *)
(* the flow is staged with the records of one scenario on table "orders"   *)
(* (no table mapping: ReplacingMergeTree), and NormalizeRecords runs on    *)
(* it.  The raw table is read only through windows whose stages have been  *)
(* loaded, so the staged rows stand in raw from the start.                 *)
(***************************************************************************)
MaxTs == 3

\* JSONExtract(_peerdb_data, name, type): the value of the field, or the
\* default of the type when the JSON has no such field
JSONExtract(data, name, default) ==
    IF name \in DOMAIN data THEN data[name] ELSE default

\* a raw record of batch 1 of a table (id int PK, v text) from its JSON data
\* and match data; NoData is the empty string of the column
NoData == [none |-> TRUE]
RecordFromJSON(uid, tbl, typ, ts, data, matchData) ==
    RawRow(uid, tbl, 1, typ, ts,
           JSONExtract(data, "id", 0), JSONExtract(data, "v", ""),
           IF matchData = NoData THEN 0 ELSE JSONExtract(matchData, "id", 0),
           IF matchData = NoData THEN "" ELSE JSONExtract(matchData, "v", ""))

\* S1: insert, update, delete of key k at t1 < t2 < t3; the delete's data is key-only
ScenarioS1(k, t1, t2, t3, v2) ==
    { RecordFromJSON(1, "orders", 0, t1, [id |-> k, v |-> "x"], NoData),
      RecordFromJSON(2, "orders", 1, t2, [id |-> k, v |-> v2], NoData),
      RecordFromJSON(3, "orders", 2, t3, [id |-> k], NoData) }

\* S2: insert of k1 at t, then an update at t + 1 that moves the row to k2
ScenarioS2(k1, k2, t) ==
    { RecordFromJSON(1, "orders", 0, t, [id |-> k1, v |-> "x"], NoData),
      RecordFromJSON(2, "orders", 1, t + 1, [id |-> k2, v |-> "x"],
                     [id |-> k1, v |-> "x"]) }

\* a record of another table in the same batch
OtherTraffic ==
    { RecordFromJSON(4, "events", 0, 1, [id |-> 1, v |-> "x"], NoData) }

IncreasingTs ==
    {t \in (1..MaxTs) \X (1..MaxTs) \X (1..MaxTs) : t[1] < t[2] /\ t[2] < t[3]}

ScenarioRaws ==
    {ScenarioS1(1, t[1], t[2], t[3], v2) \cup OtherTraffic :
        t \in IncreasingTs, v2 \in {"x", "y"}}
    \cup {ScenarioS2(1, 2, t) \cup OtherTraffic : t \in 1..(MaxTs - 1)}

InitScenario ==
    /\ lastSync = 1
    /\ lastNorm = 0
    /\ raw \in ScenarioRaws
    /\ dest = [t \in AllTables |-> EmptyBag]
    /\ env \in [par : 1..MaxParallel, parts : 1..MaxParts, pu : BOOLEAN]
    /\ ninv = 0
    /\ co = IdleCo
    /\ invs = [i \in 1..MaxInvocations |-> NoInv]
    /\ workers = {}
    /\ ret = NoRet
    /\ inserted = {}
    /\ covered = [b \in 1..MaxBatch |-> 0]
    /\ cfg = NoCfg
    /\ db = NoTable
    /\ setup = NoSetup
    /\ processed = NoProcessed
    /\ stream = NoStream
    /\ procs = NoProcs
    /\ alerting = NoAlerting

NextScenario ==
    \/ Start
    \/ Cancel
    \/ LoadStage
    \/ Setup
    \/ BuildPlanFails
    \/ ProducerSend
    \/ ProducerCancelled
    \/ ProducerClose
    \/ Finish
    \/ WorkerConnect
    \/ WorkerExec
    \/ WorkerExit

SpecScenario == InitScenario /\ [][NextScenario]_vars

(***************************************************************************)
(* SetupNormalizedTable on the destination table of the source table       *)
(* public.t, for every table mapping and source schema of the bounds.      *)
(***************************************************************************)
SourceColumns ==
    << [Name |-> "id", Type |-> "int32"], [Name |-> "v", Type |-> "string"] >>

ColumnSettings ==
    {ColumnSetting(src, dstName, ordering) :
        src \in {"id", "v", "gone"}, dstName \in {"", "pk"}, ordering \in 0..MaxOrdering}

SettingSeqs == UNION {[1..n -> ColumnSettings] : n \in 0..MaxSettings}

MappingSpace ==
    {[SourceTableIdentifier |-> "public.t", DestinationTableIdentifier |-> "t",
      Exclude |-> ex, Columns |-> cs, Engine |-> e] :
        ex \in SUBSET {"id", "v"}, cs \in SettingSeqs,
        e \in {"CH_ENGINE_REPLACING_MERGE_TREE", "CH_ENGINE_MERGE_TREE"}}

CfgSpace ==
    {[TableMappings |-> tms, schema |-> TableSchema(SourceColumns, pk)] :
        tms \in {<< >>} \cup {<< tm >> : tm \in MappingSpace},
        pk \in {<< "id" >>, << "v", "id" >>}}

\* config.SyncedAtColName: not configured, or the name of the flow
SyncedAtColNames == {"", "_PEERDB_SYNCED_AT"}

\* a table of the same name that an earlier setup of the mirror left behind
LegacyTable ==
    [columns |-> << QuoteIdentifier("id"), QuoteIdentifier("old") >>,
     engine |-> "ReplacingMergeTree",
     primaryKey |-> << QuoteIdentifier("id") >>, orderBy |-> << QuoteIdentifier("id") >>]

InitSetup ==
    /\ lastSync = 0
    /\ lastNorm = 0
    /\ raw = {}
    /\ dest = [t \in AllTables |-> EmptyBag]
    /\ env = [par |-> 1, parts |-> 1, pu |-> FALSE]
    /\ ninv = 0
    /\ co = IdleCo
    /\ invs = [i \in 1..MaxInvocations |-> NoInv]
    /\ workers = {}
    /\ ret = NoRet
    /\ inserted = {}
    /\ covered = [b \in 1..MaxBatch |-> 0]
    /\ cfg \in CfgSpace
    /\ db \in {NoTable, LegacyTable}
    /\ setup = NoSetup
    /\ processed = NoProcessed
    /\ stream = NoStream
    /\ procs = NoProcs
    /\ alerting = NoAlerting

\* if tableAlreadyExists && !config.IsResync { return true, nil }
AlreadyExistsIgnoringResync(tableAlreadyExists, isResync) == tableAlreadyExists
AlreadyExists(tableAlreadyExists, isResync) == tableAlreadyExists /\ ~isResync

\* the table the statement describes
TableOf(stmt) ==
    [columns |-> stmt.columns, engine |-> stmt.engine,
     primaryKey |-> stmt.primaryKey, orderBy |-> stmt.orderBy]

\* the database after CREATE OR REPLACE TABLE / CREATE TABLE IF NOT EXISTS
ExecCreate(table, stmt) ==
    IF stmt.create = "CREATE OR REPLACE TABLE" \/ table = NoTable
    THEN TableOf(stmt)
    ELSE table

\* the destination table name and schema the setup is called with
ProcessedSchemaMapping ==
    BuildProcessedSchemaMapping(cfg.TableMappings,
                                << [name |-> "public.t", schema |-> cfg.schema] >>)

SetupNormalizedTable ==
    /\ \E isResync \in BOOLEAN, syncedAtColName \in SyncedAtColNames,
          outcome \in {"ok", "check error", "generate error", "exec error"},
          tableIdentifier \in DOMAIN ProcessedSchemaMapping :
          LET config == [TableMappings |-> cfg.TableMappings, IsResync |-> isResync,
                         SyncedAtColName |-> syncedAtColName]
              tableAlreadyExists == db # NoTable
              stmt == generateCreateTableSQLForNormalizedTable(
                          config, tableIdentifier, ProcessedSchemaMapping[tableIdentifier])
              result(existed, err, st, table) ==
                  /\ setup' = [called |-> TRUE, existed |-> existed, err |-> err,
                               isResync |-> isResync,
                               syncedAtColName |-> syncedAtColName,
                               existedBefore |-> tableAlreadyExists,
                               stmt |-> st, unchanged |-> table = db]
                  /\ db' = table
          IN  IF outcome = "check error"
              THEN result(FALSE, Err(outcome, 0), NoStmt, db)
              ELSE IF AlreadyExists(tableAlreadyExists, isResync)
              THEN outcome = "ok" /\ result(TRUE, NoErr, NoStmt, db)
              ELSE IF outcome = "generate error"
              THEN result(FALSE, Err(outcome, 0), NoStmt, db)
              ELSE IF outcome = "exec error"
              THEN result(FALSE, Err(outcome, 0), stmt, db)
              ELSE result(FALSE, NoErr, stmt, ExecCreate(db, stmt))
    /\ UNCHANGED << cfg, processed, normVars, sideVars >>

NextSetup == SetupNormalizedTable

SpecSetup == InitSetup /\ [][NextSetup]_vars

(***************************************************************************)
(* BuildProcessedSchemaMapping on the schemas of the source tables         *)
(* public.t and public.u, for the table mappings of the bounds. A mirror   *)
(* maps a source table at most once and two source tables to different     *)
(* destination tables.                                                     *)
(***************************************************************************)
SourceColumnsU ==
    << [Name |-> "id", Type |-> "int32"], [Name |-> "w", Type |-> "string"] >>

\* tableNameSchemaMapping, as the sequence of (name, schema) sorted by name
SchemaInputs ==
    {<< [name |-> "public.t", schema |-> TableSchema(SourceColumns, pk)] >> \o rest :
        pk \in {<< "id" >>, << "v", "id" >>},
        rest \in {<< >>, << [name |-> "public.u",
                             schema |-> TableSchema(SourceColumnsU, << "id" >>)] >>}}

MappingsOfT ==
    {[SourceTableIdentifier |-> "public.t", DestinationTableIdentifier |-> "t",
      Exclude |-> ex, Columns |-> << >>, Engine |-> "CH_ENGINE_REPLACING_MERGE_TREE"] :
        ex \in SUBSET {"id", "v", "gone"}}

MappingsOfU ==
    {[SourceTableIdentifier |-> "public.u", DestinationTableIdentifier |-> "u",
      Exclude |-> ex, Columns |-> << >>, Engine |-> "CH_ENGINE_REPLACING_MERGE_TREE"] :
        ex \in SUBSET {"w", "gone"}}

SchemaMappings ==
    {<< >>} \cup {<< t >> : t \in MappingsOfT} \cup {<< u >> : u \in MappingsOfU}
        \cup {<< t, u >> : t \in MappingsOfT, u \in MappingsOfU}
        \cup {<< u, t >> : t \in MappingsOfT, u \in MappingsOfU}

InitSchema ==
    /\ lastSync = 0
    /\ lastNorm = 0
    /\ raw = {}
    /\ dest = [t \in AllTables |-> EmptyBag]
    /\ env = [par |-> 1, parts |-> 1, pu |-> FALSE]
    /\ ninv = 0
    /\ co = IdleCo
    /\ invs = [i \in 1..MaxInvocations |-> NoInv]
    /\ workers = {}
    /\ ret = NoRet
    /\ inserted = {}
    /\ covered = [b \in 1..MaxBatch |-> 0]
    /\ cfg = NoCfg
    /\ db = NoTable
    /\ setup = NoSetup
    /\ processed \in {[NoProcessed EXCEPT !.tableMappings = tms,
                                          !.tableNameSchemaMapping = schemas,
                                          !.after = schemas] :
                          tms \in SchemaMappings, schemas \in SchemaInputs}
    /\ stream = NoStream
    /\ procs = NoProcs
    /\ alerting = NoAlerting

\* the arguments after the call: the function appends to slices it made
\* itself and stores a new TableSchema, and assigns to nothing it was given
SchemasAfterBuild(tableMappings, sortedSourceTables) == sortedSourceTables

BuildSchemaMapping ==
    /\ ~processed.called
    /\ processed' =
          [processed EXCEPT
              !.called = TRUE,
              !.result = BuildProcessedSchemaMapping(processed.tableMappings,
                                                     processed.tableNameSchemaMapping),
              !.after = SchemasAfterBuild(processed.tableMappings,
                                          processed.tableNameSchemaMapping)]
    /\ UNCHANGED << cfg, db, setup, normVars, sideVars >>

NextSchema == BuildSchemaMapping

SpecSchema == InitSchema /\ [][NextSchema]_vars

(***************************************************************************)
(* QRecordStream (flow/model/qrecord_stream.go).  A channel is modelled by *)
(* the number of times it has been closed: close on a closed channel       *)
(* panics and leaves the channel as it is.  A goroutine that panics takes  *)
(* no further step.                                                        *)
(***************************************************************************)
MaxCalls == 4

\* types.QRecordSchema{} and the schemas of the callers
EmptySchema == "QRecordSchema{}"
Schemas == {"A", "B"}

\* the non-nil errors of the callers
StreamErrs == {Err("first", 0), Err("second", 0)}

NewQRecordStream(buffer) ==
    [made |-> TRUE, schemaLatch |-> 0, Records |-> 0, queue |-> << >>,
     buffer |-> buffer, err |-> NoErr, schema |-> EmptySchema, schemaSet |-> FALSE]

\* close(ch) on the close count of a channel
CloseChannelIdempotent(closes) == [closes |-> 1, panic |-> FALSE]
CloseChannel(closes) ==
    IF closes = 0 THEN [closes |-> 1, panic |-> FALSE]
    ELSE [closes |-> closes, panic |-> TRUE]

\* if !s.schemaSet
SchemaUnsetAlways(s) == TRUE
SchemaUnset(s) == ~s.schemaSet

\* QRecordStream.SetSchema: the stream after the call, and whether it panicked
SetSchema(s, schema) ==
    IF SchemaUnset(s)
    THEN LET c == CloseChannel(s.schemaLatch)
         IN  [s |-> [s EXCEPT !.schema = schema, !.schemaSet = TRUE,
                              !.schemaLatch = c.closes],
              panic |-> c.panic]
    ELSE [s |-> s, panic |-> FALSE]

\* if s.err == nil
ErrIsNilAlways(s) == TRUE
ErrIsNil(s) == s.err = NoErr

\* QRecordStream.Close: the stream after the call, and whether it panicked
Close(s, err) ==
    LET c == CloseChannel(s.Records)
        s1 == IF ErrIsNil(s) THEN [s EXCEPT !.err = err, !.Records = c.closes] ELSE s
    IN  IF ErrIsNil(s) /\ c.panic THEN [s |-> s1, panic |-> TRUE]
        ELSE IF ~s1.schemaSet THEN SetSchema(s1, EmptySchema)
        ELSE [s |-> s1, panic |-> FALSE]

\* one call of the sequence, as the log keeps it
Call(op, arg, panic) == [op |-> op, arg |-> arg, panic |-> panic]

Panicked == \E i \in DOMAIN procs.calls : procs.calls[i].panic

\* a goroutine blocked in Schema() has not returned
NoReader == [pc |-> "blocked", schema |-> EmptySchema, err |-> NoErr]

InitStream ==
    /\ lastSync = 0
    /\ lastNorm = 0
    /\ raw = {}
    /\ dest = [t \in AllTables |-> EmptyBag]
    /\ env = [par |-> 1, parts |-> 1, pu |-> FALSE]
    /\ ninv = 0
    /\ co = IdleCo
    /\ invs = [i \in 1..MaxInvocations |-> NoInv]
    /\ workers = {}
    /\ ret = NoRet
    /\ inserted = {}
    /\ covered = [b \in 1..MaxBatch |-> 0]
    /\ cfg = NoCfg
    /\ db = NoTable
    /\ setup = NoSetup
    /\ processed = NoProcessed
    /\ stream = NewQRecordStream(0)
    /\ procs = [calls |-> << >>, reader |-> NoReader]
    /\ alerting = NoAlerting

\* the next call of the sequence is SetSchema(schema)
CallSetSchema ==
    /\ ~Panicked
    /\ Len(procs.calls) < MaxCalls
    /\ \E schema \in Schemas :
          LET r == SetSchema(stream, schema)
          IN  /\ stream' = r.s
              /\ procs' = [procs EXCEPT !.calls = Append(@, Call("SetSchema", schema, r.panic))]
    /\ UNCHANGED << alerting, normVars, setupVars >>

\* the next call of the sequence is Close(err)
CallClose ==
    /\ ~Panicked
    /\ Len(procs.calls) < MaxCalls
    /\ \E err \in {NoErr} \cup StreamErrs :
          LET r == Close(stream, err)
          IN  /\ stream' = r.s
              /\ procs' = [procs EXCEPT !.calls = Append(@, Call("Close", err, r.panic))]
    /\ UNCHANGED << alerting, normVars, setupVars >>

\* Schema(): <-s.schemaLatch returns once the latch is closed
SchemaReturns ==
    /\ procs.reader.pc = "blocked"
    /\ stream.schemaLatch > 0
    /\ procs' = [procs EXCEPT !.reader = [pc |-> "returned", schema |-> stream.schema,
                                           err |-> stream.err]]
    /\ UNCHANGED << stream, alerting, normVars, setupVars >>

NextStream ==
    \/ CallSetSchema
    \/ CallClose
    \/ SchemaReturns

SpecStream == InitStream /\ [][NextStream]_vars

(***************************************************************************)
(* QRecordBatch.ToQRecordStream: FeedToQRecordStream runs in its own       *)
(* goroutine, a consumer receives from Records, and another goroutine      *)
(* calls Close once, at any point.  The goroutines share the fields of     *)
(* the stream without synchronisation, so each test of a field and the     *)
(* statements that follow it are separate steps.                           *)
(***************************************************************************)
MaxRecords == 2

NoPanic == "none"

InitFeed ==
    /\ lastSync = 0
    /\ lastNorm = 0
    /\ raw = {}
    /\ dest = [t \in AllTables |-> EmptyBag]
    /\ env = [par |-> 1, parts |-> 1, pu |-> FALSE]
    /\ ninv = 0
    /\ co = IdleCo
    /\ invs = [i \in 1..MaxInvocations |-> NoInv]
    /\ workers = {}
    /\ ret = NoRet
    /\ inserted = {}
    /\ covered = [b \in 1..MaxBatch |-> 0]
    /\ cfg = NoCfg
    /\ db = NoTable
    /\ setup = NoSetup
    /\ processed = NoProcessed
    /\ \E buffer \in 0..MaxRecords, nrecords \in 0..MaxRecords, err \in {NoErr} \cup StreamErrs :
          /\ stream = NewQRecordStream(Min2(buffer, nrecords))
          /\ procs = [feed |-> [pc |-> "SetSchema", i |-> 1, n |-> nrecords, panic |-> NoPanic],
                      closer |-> [pc |-> "Close", err |-> err, panic |-> NoPanic],
                      received |-> 0]
    /\ alerting = NoAlerting

\* stream.SetSchema(q.Schema): if !s.schemaSet
FeedSetSchemaTest ==
    /\ procs.feed.pc = "SetSchema"
    /\ procs' = [procs EXCEPT !.feed.pc = IF SchemaUnset(stream) THEN "set" ELSE "send"]
    /\ UNCHANGED << stream, alerting, normVars, setupVars >>

\* s.schema = schema; s.schemaSet = true; close(s.schemaLatch)
FeedSetSchema ==
    /\ procs.feed.pc = "set"
    /\ LET c == CloseChannel(stream.schemaLatch)
       IN  /\ stream' = [stream EXCEPT !.schema = "A", !.schemaSet = TRUE,
                                        !.schemaLatch = c.closes]
           /\ procs' = [procs EXCEPT
                          !.feed.pc = IF c.panic THEN "panicked" ELSE "send",
                          !.feed.panic = IF c.panic THEN "close of closed schemaLatch" ELSE @]
    /\ UNCHANGED << alerting, normVars, setupVars >>

\* stream.Records <- record: into the buffer, or to the waiting consumer; a
\* send on a closed channel panics
FeedSend ==
    /\ procs.feed.pc = "send"
    /\ procs.feed.i <= procs.feed.n
    /\ IF stream.Records > 0
       THEN /\ procs' = [procs EXCEPT !.feed.pc = "panicked",
                                      !.feed.panic = "send on closed Records"]
            /\ stream' = stream
       ELSE IF Len(stream.queue) < stream.buffer
       THEN /\ stream' = [stream EXCEPT !.queue = Append(@, procs.feed.i)]
            /\ procs' = [procs EXCEPT !.feed.i = @ + 1]
       ELSE /\ stream.queue = << >>
            /\ stream' = stream
            /\ procs' = [procs EXCEPT !.feed.i = @ + 1, !.received = @ + 1]
    /\ UNCHANGED << alerting, normVars, setupVars >>

\* close(stream.Records) after the loop
FeedClose ==
    /\ procs.feed.pc = "send"
    /\ procs.feed.i > procs.feed.n
    /\ LET c == CloseChannel(stream.Records)
       IN  /\ stream' = [stream EXCEPT !.Records = c.closes]
           /\ procs' = [procs EXCEPT
                          !.feed.pc = IF c.panic THEN "panicked" ELSE "done",
                          !.feed.panic = IF c.panic THEN "close of closed Records" ELSE @]
    /\ UNCHANGED << alerting, normVars, setupVars >>

\* the consumer takes a record out of the buffer
Receive ==
    /\ stream.queue # << >>
    /\ stream' = [stream EXCEPT !.queue = Tail(@)]
    /\ procs' = [procs EXCEPT !.received = @ + 1]
    /\ UNCHANGED << alerting, normVars, setupVars >>

\* Close(err): if s.err == nil { s.err = err; close(s.Records) }
CloserClose ==
    /\ procs.closer.pc = "Close"
    /\ IF ErrIsNil(stream)
       THEN LET c == CloseChannel(stream.Records)
            IN  /\ stream' = [stream EXCEPT !.err = procs.closer.err, !.Records = c.closes]
                /\ procs' = [procs EXCEPT
                               !.closer.pc = IF c.panic THEN "panicked" ELSE "schema",
                               !.closer.panic = IF c.panic THEN "close of closed Records" ELSE @]
       ELSE /\ stream' = stream
            /\ procs' = [procs EXCEPT !.closer.pc = "schema"]
    /\ UNCHANGED << alerting, normVars, setupVars >>

\* Close: if !s.schemaSet { s.SetSchema(types.QRecordSchema{}) }, up to the
\* test of SetSchema
CloserSchemaTest ==
    /\ procs.closer.pc \in {"schema", "SetSchema"}
    /\ procs' = [procs EXCEPT !.closer.pc =
                    IF ~SchemaUnset(stream) THEN "done"
                    ELSE IF @ = "schema" THEN "SetSchema" ELSE "set"]
    /\ UNCHANGED << stream, alerting, normVars, setupVars >>

\* s.schema = schema; s.schemaSet = true; close(s.schemaLatch)
CloserSetSchema ==
    /\ procs.closer.pc = "set"
    /\ LET c == CloseChannel(stream.schemaLatch)
       IN  /\ stream' = [stream EXCEPT !.schema = EmptySchema, !.schemaSet = TRUE,
                                        !.schemaLatch = c.closes]
           /\ procs' = [procs EXCEPT
                          !.closer.pc = IF c.panic THEN "panicked" ELSE "done",
                          !.closer.panic = IF c.panic THEN "close of closed schemaLatch" ELSE @]
    /\ UNCHANGED << alerting, normVars, setupVars >>

NextFeed ==
    \/ FeedSetSchemaTest
    \/ FeedSetSchema
    \/ FeedSend
    \/ FeedClose
    \/ Receive
    \/ CloserClose
    \/ CloserSchemaTest
    \/ CloserSetSchema

SpecFeed == InitFeed /\ [][NextFeed]_vars

(***************************************************************************)
(* The alerter (flow/alerting/alerting.go): AlertIfSlotLag for one peer,   *)
(* called up to MaxAlertCalls times, one call beside the other.  Each      *)
(* statement sent to the catalog is a step of its own.  The clock counts   *)
(* in units of the alerting gap setting.                                   *)
(***************************************************************************)
MaxAlertCalls == 2
MaxClock == 3
AlertGap == 2

\* PeerDBSlotLagMBAlertThreshold, and getSlotLagMBAlertThreshold of the two
\* senders (0: not set)
DefaultSlotLagThreshold == 2
AlertSenders == << [Id |-> 1, threshold |-> 0], [Id |-> 2, threshold |-> 4] >>

\* slotInfo.LagInMb: below both thresholds, between them, above both
LagReadings == {1, 3, 5}

\* the threshold that applies to a sender
ThresholdOf(sender) ==
    IF sender.threshold > 0 THEN sender.threshold ELSE DefaultSlotLagThreshold

\* the created_timestamp of a query that found no row: the zero time
NoRow == 0 - 1

\* time.Since(createdTimestamp) >= dur
GapPassed(now, created, dur) == created = NoRow \/ now - created >= dur

\* SELECT created_timestamp ... ORDER BY created_timestamp DESC LIMIT 1
LatestCreated(rows, key, id) ==
    LET mine == {r \in rows : r.key = key /\ r.cfg = id}
    IN  IF mine = {} THEN NoRow
        ELSE (CHOOSE r \in mine : \A q \in mine : q.created <= r.created).created

\* the row an INSERT adds: created_timestamp is the time of the insert
AlertRow(key, id, now, call, lag) ==
    [key |-> key, cfg |-> id, created |-> now, call |-> call, lag |-> lag]

IdleCall ==
    [pc |-> "idle", lag |-> 0, wal |-> "", sender |-> 0, key |-> "", read |-> NoRow]

InitAlert ==
    /\ lastSync = 0
    /\ lastNorm = 0
    /\ raw = {}
    /\ dest = [t \in AllTables |-> EmptyBag]
    /\ env = [par |-> 1, parts |-> 1, pu |-> FALSE]
    /\ ninv = 0
    /\ co = IdleCo
    /\ invs = [i \in 1..MaxInvocations |-> NoInv]
    /\ workers = {}
    /\ ret = NoRet
    /\ inserted = {}
    /\ covered = [b \in 1..MaxBatch |-> 0]
    /\ cfg = NoCfg
    /\ db = NoTable
    /\ setup = NoSetup
    /\ processed = NoProcessed
    /\ stream = NoStream
    /\ procs = NoProcs
    /\ \E gap \in {0, AlertGap} :
          alerting = [made |-> TRUE, gap |-> gap, now |-> 0, rows |-> {}, sent |-> {},
                      results |-> {},
                      calls |-> [p \in 1..MaxAlertCalls |-> IdleCall]]

\* time passes
Tick ==
    /\ alerting.now < MaxClock
    /\ alerting' = [alerting EXCEPT !.now = @ + 1]
    /\ UNCHANGED << stream, procs, normVars, setupVars >>

\* the call after checkAndAddAlertToCatalog has returned for the key it is
\* at: the bad WAL status alert of the same sender, the next sender, or the
\* end of the loop
Advance(c) ==
    IF c.key = "threshold" /\ c.wal \in {"lost", "unreserved"}
    THEN [c EXCEPT !.key = "wal", !.pc = "select", !.read = NoRow]
    ELSE IF c.sender < Len(AlertSenders)
    THEN [c EXCEPT !.sender = @ + 1, !.key = "threshold", !.pc = "select", !.read = NoRow]
    ELSE [c EXCEPT !.pc = "done", !.read = NoRow]

\* what checkAndAddAlertToCatalog returned, for which call, sender and key
Result(p, c, value) ==
    [call |-> p, cfg |-> AlertSenders[c.sender].Id, key |-> c.key, value |-> value]

\* AlertIfSlotLag up to the loop over the senders of the mirror
AlertIfSlotLag ==
    \E p \in 1..MaxAlertCalls, lag \in LagReadings, wal \in {"reserved", "lost"},
       ok \in BOOLEAN :
        /\ alerting.calls[p].pc = "idle"
        /\ \A q \in 1..(p - 1) : alerting.calls[q].pc # "idle"
        /\ alerting' = [alerting EXCEPT !.calls[p] =
                            IF ok
                            THEN [IdleCall EXCEPT !.pc = "select", !.lag = lag, !.wal = wal,
                                                  !.sender = 1, !.key = "threshold"]
                            ELSE [IdleCall EXCEPT !.pc = "done", !.lag = lag, !.wal = wal]]
        /\ UNCHANGED << stream, procs, normVars, setupVars >>

\* checkAndAddAlertToCatalog up to the SELECT
CheckSelect ==
    \E p \in 1..MaxAlertCalls, outcome \in {"ok", "gap error", "select error"} :
        LET c == alerting.calls[p]
            id == AlertSenders[c.sender].Id
        IN  /\ c.pc = "select"
            /\ IF outcome # "ok" \/ alerting.gap = 0
               THEN alerting' = [alerting EXCEPT !.calls[p] = Advance(c),
                                                 !.results = @ \cup {Result(p, c, FALSE)}]
               ELSE alerting' = [alerting EXCEPT
                                    !.calls[p] = [c EXCEPT !.pc = "insert",
                                                    !.read = LatestCreated(alerting.rows, c.key, id)]]
            /\ UNCHANGED << stream, procs, normVars, setupVars >>

\* checkAndAddAlertToCatalog from the gap test to its return, and what
\* AlertIfSlotLag does with the result
CheckInsert ==
    \E p \in 1..MaxAlertCalls, insertOk \in BOOLEAN :
        LET c == alerting.calls[p]
            sender == AlertSenders[c.sender]
            added == GapPassed(alerting.now, c.read, alerting.gap) /\ insertOk
            alert == /\ added
                     /\ c.key = "threshold" => c.lag > ThresholdOf(sender)
        IN  /\ c.pc = "insert"
            /\ ~GapPassed(alerting.now, c.read, alerting.gap) => insertOk
            /\ alerting' = [alerting EXCEPT
                    !.calls[p] = Advance(c),
                    !.results = @ \cup {Result(p, c, added)},
                    !.rows = IF added
                             THEN @ \cup {AlertRow(c.key, sender.Id, alerting.now, p, c.lag)}
                             ELSE @,
                    !.sent = IF alert
                             THEN @ \cup {AlertRow(c.key, sender.Id, alerting.now, p, c.lag)}
                             ELSE @]
            /\ UNCHANGED << stream, procs, normVars, setupVars >>

NextAlert ==
    \/ Tick
    \/ AlertIfSlotLag
    \/ CheckSelect
    \/ CheckInsert

SpecAlert == InitAlert /\ [][NextAlert]_vars

(***************************************************************************)
(* Properties.                                                             *)
(***************************************************************************)

\* C1: an invocation that succeeds, having started with the normalize pointer
\* below its sync batch id, leaves the pointer at that sync batch id; an
\* invocation that returns an error (catalog read, stage load, table
\* enumeration, configuration, planner, worker, catalog write) leaves the
\* pointer at the value it had when the invocation started.
C1_PointerAllOrNothing ==
    /\ (ret.kind = "ok" /\ ret.norm < ret.sync) => lastNorm = ret.sync
    /\ ret.kind = "err" => lastNorm = ret.norm0

\* every plan of a window after an earlier success ran, and the catalog write failed
C1_Witness ==
    /\ ret.kind = "err"
    /\ ret.err.kind = "catalog write"
    /\ ret.complete
    /\ ret.norm0 > 0
    /\ lastNorm = ret.norm0
    /\ lastNorm < ret.sync

\* C2: the normalize pointer is written only when the producer has emitted
\* the plan of every table of the schema mapping that has rows in the window
\* and of every part, every one of these plans has been executed without
\* error, and no worker of the invocation is left that holds or could take a
\* plan.
C2_WriteAfterAllPlans ==
    [][lastNorm' # lastNorm =>
          /\ co.pc = "wait"
          /\ co.parts >= 1
          /\ co.emitted = {Plan(t, part, co.parts, co.norm, co.sync, co.pu) :
                              t \in DistinctTableNames(raw, co.norm, co.sync),
                              part \in 0..(co.parts - 1)}
          /\ co.execOk = co.emitted
          /\ ~ \E w \in workers : w.inv = co.id]_vars

\* the pointer has been written after four plans (two tables, two parts)
C2_Witness ==
    /\ ret.kind = "ok"
    /\ ret.nplans = 4
    /\ ret.complete
    /\ lastNorm = ret.sync
    /\ lastNorm > ret.norm0

\* C3: the normalize pointer never exceeds the sync pointer.
C3_NormAtMostSync == lastNorm <= lastSync

\* an invocation has caught up with a sync pointer that batches had moved
C3_Witness ==
    /\ ret.kind = "ok"
    /\ ret.norm < ret.sync
    /\ lastNorm = lastSync
    /\ lastSync = MaxBatch

\* C4: an invocation that reads a normalize pointer at or above its sync batch
\* id returns {start: the pointer, end: the sync batch id} without an error
\* and without any work: no stage load, no query on the raw table, no worker,
\* no plan, no write of the pointer.
C4_CaughtUpIsNoOp ==
    (ret.kind # "none" /\ ret.norm >= ret.sync) =>
        /\ ret.kind = "ok"
        /\ ret.start = ret.norm
        /\ ret.end = ret.sync
        /\ ~ret.worked
        /\ ret.nplans = 0
        /\ lastNorm = ret.norm0

\* a caught-up invocation whose sync batch id is behind the pointer
C4_Witness ==
    /\ ret.kind = "ok"
    /\ ret.norm > ret.sync
    /\ ret.start = ret.norm
    /\ ret.end = ret.sync

\* C5: an invocation that succeeds, having read a normalize pointer below its
\* sync batch id, returns exactly {start: pointer + 1, end: sync batch id};
\* the ranges of the successful invocations are adjacent and do not overlap:
\* every batch id up to the pointer is in exactly one of them, and no batch
\* id above it is in any.
C5_RangesTile ==
    /\ (ret.kind = "ok" /\ ret.norm < ret.sync) =>
          /\ ret.start = ret.norm + 1
          /\ ret.end = ret.sync
          /\ ret.norm = ret.norm0
          /\ lastNorm = ret.end
    /\ \A b \in DOMAIN covered : covered[b] = IF b <= lastNorm THEN 1 ELSE 0

\* the second of two successful invocations returns the range next to the first
C5_Witness ==
    /\ ret.kind = "ok"
    /\ ret.start = 2
    /\ ret.end = 2
    /\ covered[1] = 1
    /\ covered[2] = 1

\* C6 as stated: if the execution of a plan has failed, the invocation
\* returns an error, the error is the first error a worker returned, and the
\* pointer is where it was.
C6_FirstWorkerError ==
    ret.planFailed =>
        /\ ret.kind = "err"
        /\ ret.err = ret.gerr
        /\ lastNorm = ret.norm0

\* C6, amended: if the execution of a plan has failed, the invocation returns
\* an error and never success, and leaves the pointer where it was.  The
\* error is the first worker error when it comes from group.Wait, the cause
\* of the cancellation of the group's context (the first worker error, or the
\* caller's cancellation when that came first) when the producer meets the
\* cancellation at a send, and the planner's own error when the planner fails
\* on a later table.  The next invocation with the same sync batch id that
\* reads the pointer reads the same value and starts from nothing; it
\* succeeds only after it has loaded every stage of the window and executed
\* every (table, part) plan of the window itself.
C6_ErrorAndRedo ==
    /\ [](ret.planFailed =>
            /\ ret.kind = "err"
            /\ lastNorm = ret.norm0
            /\ \/ ret.err = ret.gerr
               \/ ret.err = ret.cause /\ ret.cause \in {ret.gerr, Canceled}
               \/ ret.err.kind \in {"type conversion", "binary format"})
    /\ []((ret.kind = "ok" /\ ret.norm < ret.sync) => ret.loadedAll /\ ret.complete)
    /\ [][(co.pc = "idle" /\ co'.pc # "idle" /\ ret.planFailed /\ co'.sync = ret.sync) =>
             /\ co'.norm = ret.norm
             /\ co'.loaded = << >>
             /\ co'.emitted = {}
             /\ co'.execOk = {}]_vars

\* a plan has failed after another plan of the invocation had been executed
C6_Witness ==
    /\ ret.planFailed
    /\ ret.kind = "err"
    /\ ret.err.kind = "insert"
    /\ ret.err = ret.gerr
    /\ ret.nplans >= 2
    /\ inserted # {}
    /\ lastNorm = ret.norm0

\* C7 as stated: every raw row of a batch at or below the normalize pointer
\* has been inserted into the destination table its
\* _peerdb_destination_table_name names.
C7_EveryRowMaterialized ==
    \A r \in raw :
        (1 <= r.batch /\ r.batch <= lastNorm) => BagIn(Image(r), dest[r.tbl])

\* C7, amended: every raw row of a batch at or below the normalize pointer
\* whose destination table name is a key of the flow's schema mapping has
\* been inserted into that destination table; rows that name any other table
\* are skipped.
C7_MappedRowsMaterialized ==
    \A r \in raw :
        (1 <= r.batch /\ r.batch <= lastNorm /\ r.tbl \in SchemaTables) =>
            BagIn(Image(r), dest[r.tbl])

\* rows of both mapped tables are below the pointer and in their tables
C7_Witness ==
    /\ lastNorm >= 1
    /\ \E r1, r2 \in raw :
          /\ r1.tbl = "orders" /\ r2.tbl = "events"
          /\ r1.batch <= lastNorm /\ r2.batch <= lastNorm
          /\ BagIn(Image(r1), dest["orders"])
          /\ BagIn(Image(r2), dest["events"])

\* C8 as stated: every destination table holds, after the merge of its
\* engine, what it would hold had every plan's rows been inserted once.
C8_ReplayIdempotent ==
    \A t \in SchemaTables :
        Merged(Engine(FindTableMapping(t)), dest[t])
            = Merged(Engine(FindTableMapping(t)), InsertedOnce(raw, inserted, t))

\* C8, amended: every destination table whose table mapping does not select
\* the MergeTree engine holds, after the merge of its engine, what it would
\* hold had every plan's rows been inserted once; a MergeTree table keeps
\* the rows of every execution.
C8_ReplayIdempotentReplacing ==
    \A t \in SchemaTables :
        FindTableMapping(t).Engine # "CH_ENGINE_MERGE_TREE" =>
            Merged(Engine(FindTableMapping(t)), dest[t])
                = Merged(Engine(FindTableMapping(t)), InsertedOnce(raw, inserted, t))

\* a table without mapping holds rows of a plan that was executed twice
C8_Witness ==
    /\ \E r \in raw : r.tbl = "orders" /\ CopiesIn(Image(r), dest["orders"]) >= 2
    /\ dest["orders"] # InsertedOnce(raw, inserted, "orders")
    /\ ret.kind = "ok"

\* C9: for every number of parts, every table and every window, the rows the
\* plans of the parts select are pairwise disjoint and together are the rows
\* the single plan of parts = 1 selects, in the main branch and in the
\* tombstone branch.  (The raw table is empty at first, so the property is
\* stated of the raw table each time it has changed.)
C9_PartsPartition ==
    [][raw' # raw =>
        \A t \in SchemaTables, n \in 1..(MaxParts + 1), a \in 0..MaxBatch, b \in 1..MaxBatch :
            LET whole == Plan(t, 0, 1, a, b, TRUE)
                part(i) == Plan(t, i, n, a, b, TRUE)
            IN  /\ \A i, j \in 0..(n - 1) :
                      i # j => /\ MainRows(raw', part(i)) \cap MainRows(raw', part(j)) = {}
                               /\ TombRows(raw', part(i)) \cap TombRows(raw', part(j)) = {}
                /\ UNION {MainRows(raw', part(i)) : i \in 0..(n - 1)} = MainRows(raw', whole)
                /\ UNION {TombRows(raw', part(i)) : i \in 0..(n - 1)} = TombRows(raw', whole)]_vars

\* two rows of a table and a batch have gone through the plans of different parts
C9_Witness ==
    /\ env.parts = 2
    /\ env.pu
    /\ \E r1, r2 \in raw :
          /\ r1.tbl = r2.tbl /\ r1.batch = r2.batch
          /\ cityHash64(r1.uid) % 2 = 0
          /\ cityHash64(r2.uid) % 2 = 1
          /\ {<< r1.uid, FALSE >>, << r2.uid, FALSE >>, << r2.uid, TRUE >>} \subseteq inserted

\* C10: with primary-update, the tombstone inserted for an update that
\* changes the primary key has _peerdb_is_deleted = 1 and a version strictly
\* below the version of the image of the same record, whatever the timestamp.
C10_TombstoneOlder ==
    \A r \in raw :
        (env.pu /\ r.typ = 1 /\ r.mkey # 0 /\ r.mkey # r.key
                /\ << r.uid, TRUE >> \in inserted) =>
            /\ Tombstone(r).del = 1
            /\ Tombstone(r).ver < Image(r).ver

\* C11: a column listed in Exclude is neither in the column list of the
\* CREATE statement nor in the INSERT column list or the projection of a
\* plan, and an excluded primary-key column is neither in the PRIMARY KEY
\* nor in the ORDER BY clause, whatever the Ordering of the column settings.
C11_ExcludeStability ==
    \A tableIdentifier \in DOMAIN ProcessedSchemaMapping :
        LET tm == FindMappingIn(cfg.TableMappings, tableIdentifier)
            schema == ProcessedSchemaMapping[tableIdentifier]
        IN  (setup.stmt.create # "" /\ setup.stmt.table = tableIdentifier) =>
                \A x \in tm.Exclude :
                    /\ ~SeqContains(setup.stmt.columns, QuoteIdentifier(x))
                    /\ ~SeqContains(ColSelector(tm, schema), QuoteIdentifier(x))
                    /\ \A i \in DOMAIN schema.Columns : Projection(tm, schema)[i].from # x
                    /\ SeqContains(cfg.schema.PrimaryKeyColumns, x) =>
                          /\ ~SeqContains(setup.stmt.primaryKey, QuoteIdentifier(x))
                          /\ ~SeqContains(setup.stmt.orderBy, QuoteIdentifier(x))

\* what the destination table "orders" holds after the merge of its engine
MergedOrders == Merged(Engine(FindTableMapping("orders")), dest["orders"])

\* C12 as stated: in scenario S1 (insert, update, delete of one key at
\* increasing timestamps, the delete's data key-only), once the window is
\* normalized the destination after merge holds exactly one row for the key,
\* deleted, with the delete's timestamp as version and the value of the last
\* update image in the non-key column.
C12_LastUpdateImage ==
    \A t \in IncreasingTs, v2 \in {"x", "y"} :
        (raw = ScenarioS1(1, t[1], t[2], t[3], v2) \cup OtherTraffic /\ lastNorm = 1) =>
            MergedOrders = SetToBag({[key |-> 1, val |-> v2, del |-> 1, ver |-> t[3]]})

\* C12, amended: in scenario S1, once the window is normalized the
\* destination after merge holds exactly one row for the key, deleted, with
\* the delete's timestamp as version, and the non-key column holds what the
\* delete's own data yields: the default of the column, not the value of the
\* last update image.
C12_DeleteImage ==
    \A t \in IncreasingTs, v2 \in {"x", "y"} :
        (raw = ScenarioS1(1, t[1], t[2], t[3], v2) \cup OtherTraffic /\ lastNorm = 1) =>
            MergedOrders = SetToBag({[key |-> 1, val |-> JSONExtract([id |-> 1], "v", ""),
                                      del |-> 1, ver |-> t[3]]})

\* S1 itself has been normalized: the three images are in the destination
C12_Witness ==
    /\ raw = ScenarioS1(1, 1, 2, 3, "y") \cup OtherTraffic
    /\ lastNorm = 1
    /\ ret.kind = "ok"
    /\ BagIn([key |-> 1, val |-> "y", del |-> 0, ver |-> 2], dest["orders"])
    /\ BagIn([key |-> 1, val |-> "", del |-> 1, ver |-> 3], dest["orders"])

\* C13: in scenario S2 with primary-update enabled (insert of k1 at t, update
\* at t + 1 that moves the row to k2), once the window is normalized the
\* destination after merge holds exactly the tombstone of k1 at version t and
\* the image of k2 at version t + 1: the row that survives for k1 is the
\* tombstone and not the insert image.
C13_TombstoneSurvives ==
    \A t \in 1..(MaxTs - 1) :
        (raw = ScenarioS2(1, 2, t) \cup OtherTraffic /\ lastNorm = 1 /\ env.pu) =>
            MergedOrders = SetToBag({[key |-> 1, val |-> "x", del |-> 1, ver |-> t],
                                     [key |-> 2, val |-> "x", del |-> 0, ver |-> t + 1]})

\* C14: the stages loaded so far in an invocation are norm+1, norm+2, ..., j
\* in this order, each once, with j <= sync; the table enumeration and what
\* follows it start only when j = sync; and a load adds to the raw table
\* rows of the next batch id only.
C14_LoadsAscendingPrefix ==
    /\ [](co.pc # "idle" =>
            /\ co.loaded = [i \in 1..Len(co.loaded) |-> co.norm + i]
            /\ co.norm + Len(co.loaded) <= co.sync
            /\ co.pc # "load" => co.norm + Len(co.loaded) = co.sync)
    /\ [][raw' # raw =>
            /\ co.pc = "load"
            /\ co'.loaded = Append(co.loaded, co.norm + Len(co.loaded) + 1)
            /\ \A r \in raw' \ raw : r.batch = co.norm + Len(co.loaded) + 1]_vars

\* both stages of a window of two batches have been loaded and the workers run
C14_Witness ==
    /\ co.pc = "produce"
    /\ co.norm = 0 /\ co.sync = 2
    /\ co.loaded = << 1, 2 >>
    /\ \E r \in raw : r.batch = 2

\* a stage load has failed: the invocation returns its error from the loop
\* of the loads, before the table enumeration, the start of the workers and
\* any plan, and leaves the stages after the failed one unloaded, the raw
\* table, the destination and the pointer as they are
StageLoadFails ==
    /\ ret' # ret
    /\ ret'.err = Err("stage load", 0)
FailsBeforePlanning ==
    /\ co.pc = "load"
    /\ ~co.queried /\ co.started = 0 /\ co.emitted = {} /\ co.execOk = {}
    /\ ~ \E w \in workers : w.inv = co.id
    /\ ret'.kind = "err"
    /\ ret'.nloaded = co.next - co.norm - 1
    /\ co.loaded = [i \in 1..(co.next - co.norm - 1) |-> co.norm + i]
    /\ raw' = raw /\ dest' = dest /\ lastNorm' = lastNorm
\* an invocation enters the loop of the loads after one that failed in it
StartsAfterFailedLoad ==
    /\ ret.err = Err("stage load", 0)
    /\ co.pc = "idle" /\ co'.pc = "load"

\* C15 as stated: a failed load of stage s returns an error before any
\* table enumeration, worker start or plan execution and without loading a
\* later stage, and the next invocation resumes the loads at s.
C15_ResumesAtFailedStage ==
    /\ [][StageLoadFails => FailsBeforePlanning]_vars
    /\ [][StartsAfterFailedLoad => co'.next = ret.norm + ret.nloaded + 1]_vars

\* C15, amended: a failed load of stage s returns an error before any table
\* enumeration, worker start or plan execution and without loading a later
\* stage; the next invocation starts the loads again at norm + 1, the
\* pointer being unchanged, and loads once more the stages before s.
C15_RestartsAtFirstStage ==
    /\ [][StageLoadFails => FailsBeforePlanning]_vars
    /\ [][StartsAfterFailedLoad =>
            /\ lastNorm = ret.norm
            /\ co'.next = ret.norm + 1
            /\ co'.loaded = << >>]_vars

\* the load of stage 2 has failed after stage 1 was loaded
C15_Witness ==
    /\ ret.err = Err("stage load", 0)
    /\ ret.norm = 0 /\ ret.sync = 2 /\ ret.nloaded = 1
    /\ \E r \in raw : r.batch = 1
    /\ ~ \E r \in raw : r.batch = 2
    /\ lastNorm = 0

C17_SetupIdempotent ==
    /\ []((setup.called /\ setup.err = NoErr) =>
            /\ setup.existed <=> (setup.existedBefore /\ ~setup.isResync)
            /\ setup.existed => (setup.stmt = NoStmt /\ setup.unchanged)
            /\ ~setup.existed =>
                  setup.stmt.create = IF setup.isResync THEN "CREATE OR REPLACE TABLE"
                                      ELSE "CREATE TABLE IF NOT EXISTS")
    /\ []((setup.called /\ setup.err # NoErr) => (~setup.existed /\ setup.unchanged))
    /\ [][(setup'.called /\ ~setup'.isResync /\ db # NoTable) => db' = db]_vars

\* a non-resync call has found the table that an earlier call created
C17_Witness ==
    /\ setup.called /\ setup.err = NoErr
    /\ ~setup.isResync /\ setup.existedBefore /\ setup.existed
    /\ db # NoTable /\ db # LegacyTable
    /\ db.engine = "ReplacingMergeTree"

\* the table names of the raw rows of the window that are keys of the schema mapping
MappedTablesInWindow(norm, sync) ==
    {r.tbl : r \in {x \in raw : InWindow(x.batch, norm, sync)}} \cap SchemaTables

\* C18: the tables the planner goes through, and so the tables of the plans,
\* are the table names of the raw rows of the window that are keys of the
\* schema mapping; an invocation whose plans have all run returns with plans
\* for exactly these tables and, unless the catalog write or a worker fails,
\* with the pointer at sync, whatever other table names the window holds.
C18_PlansForMappedTables ==
    /\ [](co.pc \in {"produce", "wait"} =>
            /\ {co.tables[i] : i \in DOMAIN co.tables} = MappedTablesInWindow(co.norm, co.sync)
            /\ \A p \in co.emitted : p.tbl \in MappedTablesInWindow(co.norm, co.sync))
    /\ [][(co.pc = "wait" /\ ret' # ret /\ ret'.kind = "ok") =>
            /\ {p.tbl : p \in co.emitted} = MappedTablesInWindow(co.norm, co.sync)
            /\ co.execOk = co.emitted
            /\ lastNorm' = co.sync]_vars
    /\ [](dest["audit"] = EmptyBag)

\* a window with rows of the unmapped table "audit" and of "events" has been
\* normalized: plans for "events" only, no error, pointer at sync
C18_Witness ==
    /\ ret.kind = "ok" /\ ret.nplans > 0
    /\ lastNorm = ret.sync
    /\ \E r \in raw : r.tbl = "audit" /\ InWindow(r.batch, ret.norm, ret.sync)
    /\ \E r \in raw : r.tbl = "events" /\ InWindow(r.batch, ret.norm, ret.sync)
    /\ dest["events"] # EmptyBag

\* the planner fails to convert the type of a column of the table of its next plan
ConversionFails ==
    /\ co.pc = "produce"
    /\ ret' # ret
    /\ ret'.err = Err("type conversion", 0)

\* C19 as stated: when the type conversion of a column fails, only the plan
\* of that table is skipped: the invocation does not return an error and the
\* producer goes on with the plans of the other tables.
C19_SkipsOnlyThatPlan ==
    [][ConversionFails => (ret'.kind # "err" /\ co'.pc = "produce")]_vars

\* C19, amended: when the type conversion of a column fails the invocation
\* fails as a whole: the planner closes the channel and returns the error,
\* no plan of any table is emitted after that, the workers finish the plans
\* they hold and exit, and the pointer is not advanced.
C19_ConversionErrorFailsInvocation ==
    /\ [][ConversionFails =>
            /\ ret'.kind = "err"
            /\ co'.pc = "idle"
            /\ ret'.nplans = Cardinality(co.emitted)
            /\ lastNorm' = lastNorm
            /\ \A w \in workers : w.inv = co.id => invs'[co.id].closed]_vars
    /\ [](ret.err = Err("type conversion", 0) =>
            (ret.kind = "err" /\ ~ret.complete /\ lastNorm = ret.norm0))

\* the conversion fails for a table after a plan of the window was emitted,
\* in a window with rows of two mapped tables
C19_Witness ==
    /\ ret.err = Err("type conversion", 0)
    /\ ret.nplans >= 1
    /\ lastNorm = ret.norm0
    /\ \E r \in raw : r.tbl = "orders" /\ InWindow(r.batch, ret.norm, ret.sync)
    /\ \E r \in raw : r.tbl = "events" /\ InWindow(r.batch, ret.norm, ret.sync)

\* the error of a plan execution has cancelled the shared context of the
\* invocation that runs
ExecErrorCancelled ==
    /\ co.pc # "idle"
    /\ invs[co.id].cause.kind = "insert"

\* C20 as stated: once a plan execution error has cancelled the shared
\* context the producer emits no further plan, and no plan is handed to a
\* worker, even when a worker is ready to receive.
C20_NoPlanAfterCancellation ==
    [][ExecErrorCancelled =>
        /\ co'.pc # "idle" => co'.emitted = co.emitted
        /\ \A w \in workers' : (w.inv = co.id /\ w.pc = "exec") => w \in workers]_vars

\* C20, amended: once a plan execution error has cancelled the shared
\* context, a plan is emitted only by a send that a worker ready to receive
\* takes (the select of the producer has then two ready cases and may take
\* either); the worker whose query failed has returned and takes no plan;
\* and the invocation does not advance the pointer.
C20_SendOnlyToReadyWorker ==
    /\ [][(ExecErrorCancelled /\ co'.pc # "idle" /\ co'.emitted # co.emitted) =>
            /\ co.pc = "produce"
            /\ co'.emitted = co.emitted \cup {PlanAt(co, co.k)}
            /\ \E w \in workers :
                  /\ w.inv = co.id /\ w.pc = "recv"
                  /\ workers' = (workers \ {w})
                                   \cup {[w EXCEPT !.pc = "exec", !.plan = PlanAt(co, co.k)]}]_vars
    /\ [](ExecErrorCancelled =>
            \A w \in workers : w.inv = co.id => w.idx # invs[co.id].cause.w)
    /\ [][ExecErrorCancelled => lastNorm' = lastNorm]_vars

\* a plan was handed to a ready worker after the cancellation, and executed
C20_Witness ==
    /\ ExecErrorCancelled
    /\ co.late
    /\ co.planFailed
    /\ \E p \in co.execOk : p = PlanAt(co, co.k - 1)

\* the workers of the invocation that runs
WorkersOf(i) == {w \in workers : w.inv = i}

\* the configured number clamped to 1..ntables, and 0 without tables
Clamped(par, ntables) ==
    IF ntables = 0 THEN 0
    ELSE IF par < 1 THEN 1
    ELSE IF par > ntables THEN ntables
    ELSE par

\* C21: an invocation starts P workers, P being the configured parallelism
\* clamped to at least 1 and at most the number of mapped tables of the
\* window (no worker when there is none); at most P workers exist and so at
\* most P plans execute at a time; and the workers have distinct indexes,
\* each holding at most one plan.
C21_WorkerPool ==
    /\ \A par \in 0..(MaxParallel + 1), n \in 0..Cardinality(AllTables) :
          ParallelNormalize(par, n) = Clamped(par, n)
    /\ co.pc \in {"produce", "wait"} =>
          /\ co.started = Clamped(env.par, Cardinality(MappedTablesInWindow(co.norm, co.sync)))
          /\ Cardinality(WorkersOf(co.id)) <= co.started
          /\ \A w \in WorkersOf(co.id) : w.idx \in 0..(co.started - 1)
    /\ \A w1, w2 \in workers : (w1.inv = w2.inv /\ w1.idx = w2.idx) => w1 = w2
    /\ \A w \in workers : w.pc = "exec" <=> w.plan # NoPlan

\* two workers of one invocation execute the plans of two tables at the same time
C21_Witness ==
    /\ co.pc \in {"produce", "wait"}
    /\ co.started = 2
    /\ \E w1, w2 \in WorkersOf(co.id) :
          /\ w1.idx = 0 /\ w2.idx = 1
          /\ w1.pc = "exec" /\ w2.pc = "exec"
          /\ w1.plan.tbl # w2.plan.tbl

\* the coordinator issues a query on the connector's own connection: the
\* load of a stage or the enumeration of the tables of the window
CoordinatorQueries ==
    /\ co.pc = "load"
    /\ co' # co

\* worker 0 of some invocation has a query in progress on that connection
WorkerZeroExecutes == \E w \in workers : w.idx = 0 /\ w.pc = "exec"

\* C22: the connection shared by the coordinator and worker 0 is never in
\* use by both: when the coordinator of an invocation issues a query on it,
\* no worker 0, of this invocation or of one that has returned, is
\* executing a plan on it.
C22_SharedConnectionExclusive ==
    [][CoordinatorQueries => ~WorkerZeroExecutes]_vars

\* C23: once an invocation has returned, on whatever path, none of its
\* workers executes a plan: a worker that executes belongs to the invocation
\* that runs, so the plans of two invocations never execute at the same time.
C23_NoPlanAfterReturn ==
    /\ \A w \in workers : w.pc = "exec" => (co.pc # "idle" /\ w.inv = co.id)
    /\ \A w1, w2 \in workers : (w1.pc = "exec" /\ w2.pc = "exec") => w1.inv = w2.inv

\* C24: on every return path every worker that was started exits in the end
\* (and with it the connection it opened is closed): no worker stays blocked
\* for ever on the plan channel.
C24_WorkersEventuallyExit == <>[](workers = {})

\* an invocation that went through the workers returns without error
SucceedsAfterWork ==
    /\ co.pc = "wait"
    /\ ret' # ret
    /\ ret'.kind = "ok"

\* one plan per mapped table of the window and part index below n
PlansOfParts(n) ==
    {Plan(t, i, n, co.norm, co.sync, co.pu) :
        t \in MappedTablesInWindow(co.norm, co.sync), i \in 0..(n - 1)}

\* a plan is handed to one worker that was ready, and it is not a plan that
\* was emitted before; a plan that executes was not executed before
HandedOnceExecutedOnce ==
    /\ co'.emitted # co.emitted /\ co'.pc # "idle" =>
          /\ PlanAt(co, co.k) \notin co.emitted
          /\ co'.emitted = co.emitted \cup {PlanAt(co, co.k)}
          /\ \E w \in WorkersOf(co.id) :
                /\ w.pc = "recv"
                /\ workers' = (workers \ {w})
                                 \cup {[w EXCEPT !.pc = "exec", !.plan = PlanAt(co, co.k)]}
    /\ co'.execOk # co.execOk /\ co'.pc # "idle" =>
          \E w \in WorkersOf(co.id) :
              /\ w.pc = "exec" /\ w.plan \in co.emitted \ co.execOk
              /\ co'.execOk = co.execOk \cup {w.plan}
              /\ dest' = [dest EXCEPT ![w.plan.tbl] = @ (+) PlanInserts(raw, w.plan)]
    /\ dest' # dest => co'.execOk # co.execOk \/ \E w \in workers : w.inv # co.id

\* C25 as stated: a successful invocation has emitted exactly one plan per
\* mapped table of the window and part index, the number of parts being
\* max(1, configured parts); each plan was handed to exactly one worker and
\* executed exactly once.
C25_PlansPerTableAndPart ==
    /\ [][SucceedsAfterWork =>
            /\ co.emitted = PlansOfParts(Max2(1, env.parts))
            /\ Cardinality(co.emitted)
                  = Cardinality(MappedTablesInWindow(co.norm, co.sync)) * Max2(1, env.parts)
            /\ co.execOk = co.emitted]_vars
    /\ [][HandedOnceExecutedOnce]_vars

\* C25, amended: a successful invocation has emitted exactly one plan per
\* mapped table of the window and part index, the number of parts being
\* max(1, configured parts), or 1 when the setting could not be read; each
\* plan was handed to exactly one worker and executed exactly once.
C25_PlansPerTableAndPartRead ==
    /\ [][SucceedsAfterWork =>
            /\ co.parts \in {Max2(1, env.parts), 1}
            /\ co.emitted = PlansOfParts(co.parts)
            /\ Cardinality(co.emitted)
                  = Cardinality(MappedTablesInWindow(co.norm, co.sync)) * co.parts
            /\ co.execOk = co.emitted]_vars
    /\ [][HandedOnceExecutedOnce]_vars

\* with two parts configured and the setting unreadable, the single plan of
\* each of two tables has been executed and every worker has returned
C25_Witness ==
    /\ co.pc = "wait"
    /\ env.parts = 2 /\ co.parts = 1
    /\ Len(co.tables) = 2
    /\ Cardinality(co.emitted) = 2
    /\ co.execOk = co.emitted
    /\ WorkersOf(co.id) = {}
    /\ invs[co.id].gerr = NoErr

\* the mapping, the schema and the renames of the table of the statement
StmtMapping == FindMappingIn(cfg.TableMappings, setup.stmt.table)
StmtSchema == ProcessedSchemaMapping[setup.stmt.table]
StmtColNameMap == ColNameMap(StmtMapping, StmtSchema)

\* the settings of the mapping with Ordering > 0, and the place of one of
\* them in ascending Ordering with equal values in mapping order
OrderingSettings == {a \in DOMAIN StmtMapping.Columns : StmtMapping.Columns[a].Ordering > 0}
PlaceOf(a) ==
    1 + Cardinality({b \in OrderingSettings :
                        \/ StmtMapping.Columns[b].Ordering < StmtMapping.Columns[a].Ordering
                        \/ /\ StmtMapping.Columns[b].Ordering = StmtMapping.Columns[a].Ordering
                           /\ b < a})

UnknownOrderingColumns ==
    IF cfg.TableMappings = << >> THEN {}
    ELSE LET settings == cfg.TableMappings[1].Columns
         IN  {settings[a].SourceName : a \in {b \in DOMAIN settings : settings[b].Ordering > 0}}
                \ {cfg.schema.Columns[i].Name : i \in DOMAIN cfg.schema.Columns}

\* C27: with a column setting that gives Ordering > 0 to a name that is not
\* a column of the schema, the generation of the statement fails: no CREATE
\* statement is produced, and so none that names the unknown column.
C27_UnknownOrderingColumnFatal ==
    (UnknownOrderingColumns # {} /\ setup.called) =>
        /\ setup.stmt = NoStmt
        /\ \A x \in UnknownOrderingColumns :
              /\ ~SeqContains(setup.stmt.orderBy, QuoteIdentifier(x))
              /\ ~SeqContains(setup.stmt.primaryKey, QuoteIdentifier(x))

\* the source names that the mapping of the statement's table renames
RenamedSources ==
    {n \in {StmtMapping.Columns[a].SourceName : a \in DOMAIN StmtMapping.Columns} :
        DstColName(StmtMapping, n) # n}

\* C28: in a generated statement every identifier of PRIMARY KEY and ORDER BY
\* is a column the statement declares; the declared user columns are, name
\* by name, the columns of the INSERT column list and the aliases of the
\* projection of the plans of the table; and the source name of a renamed
\* column is in none of the four.
C28_RenamesUniform ==
    setup.stmt.create # "" =>
        /\ \A i \in DOMAIN setup.stmt.orderBy :
              SeqContains(setup.stmt.columns, setup.stmt.orderBy[i])
        /\ \A i \in DOMAIN setup.stmt.primaryKey :
              SeqContains(setup.stmt.columns, setup.stmt.primaryKey[i])
        /\ \A i \in DOMAIN StmtSchema.Columns :
              /\ setup.stmt.columns[i] = ColSelector(StmtMapping, StmtSchema)[i]
              /\ setup.stmt.columns[i] = Projection(StmtMapping, StmtSchema)[i].as
        /\ \A n \in RenamedSources :
              /\ ~SeqContains(setup.stmt.orderBy, QuoteIdentifier(n))
              /\ ~SeqContains(setup.stmt.primaryKey, QuoteIdentifier(n))
              /\ ~SeqContains(setup.stmt.columns, QuoteIdentifier(n))
              /\ ~SeqContains(ColSelector(StmtMapping, StmtSchema), QuoteIdentifier(n))

\* the names of a list of identifiers, in order
NamesOf(identifiers) == [i \in DOMAIN identifiers |-> identifiers[i].name]

\* the synced-at column of the statement of the last setup
StmtSyncedAt == QuoteIdentifier(ToLower(setup.syncedAtColName))

\* C29: the INSERT column list of the plans of a table names, in order, the
\* columns of its CREATE statement without the synced-at column: the user
\* columns, then _peerdb_is_deleted, then _peerdb_version. A configured
\* synced-at column is declared with a default and is neither in the column
\* list nor in the projection of the plans.
C29_InsertListIsDeclaredList ==
    setup.stmt.create # "" =>
        LET colSelector == ColSelector(StmtMapping, StmtSchema)
            projection == Projection(StmtMapping, StmtSchema)
            declared == SelectSeq(setup.stmt.columns, LAMBDA c : c # StmtSyncedAt)
        IN  /\ NamesOf(colSelector) = NamesOf(declared)
            /\ NamesOf(colSelector) =
                  [i \in DOMAIN StmtSchema.Columns |->
                      DstColName(StmtMapping, StmtSchema.Columns[i].Name)]
                  \o << signColName, versionColName >>
            /\ setup.syncedAtColName # "" =>
                  /\ SeqContains(setup.stmt.columns, StmtSyncedAt)
                  /\ StmtSyncedAt \in setup.stmt.defaults
                  /\ ~SeqContains(NamesOf(colSelector), StmtSyncedAt.name)
                  /\ \A i \in DOMAIN projection : projection[i].as # StmtSyncedAt
            /\ setup.syncedAtColName = "" => setup.stmt.defaults = {}

\* a statement with a synced-at column for a table with an excluded and a
\* renamed column
C29_Witness ==
    /\ setup.stmt.create # ""
    /\ setup.syncedAtColName # ""
    /\ StmtMapping # NoMapping
    /\ StmtMapping.Exclude # {}
    /\ \E i \in DOMAIN StmtSchema.Columns :
          DstColName(StmtMapping, StmtSchema.Columns[i].Name) # StmtSchema.Columns[i].Name
    /\ Len(setup.stmt.columns) = Len(StmtSchema.Columns) + 3

\* the mapping of a source table among the mappings of the call
MappingOfSource(srcTableName) ==
    LET hits == {i \in DOMAIN processed.tableMappings :
                    processed.tableMappings[i].SourceTableIdentifier = srcTableName}
    IN  IF hits = {} THEN NoMapping
        ELSE processed.tableMappings[CHOOSE i \in hits : \A j \in hits : i <= j]

\* the names of Exclude that are columns of the schema
KnownExcludes(mapping, tableSchema) ==
    mapping.Exclude \cap {tableSchema.Columns[i].Name : i \in DOMAIN tableSchema.Columns}

\* the stored schema has exactly the source columns that are not excluded,
\* in the order of the source
StoresNonExcludedColumns ==
    processed.called =>
        \A i \in DOMAIN processed.tableNameSchemaMapping :
            LET src == processed.tableNameSchemaMapping[i]
                mapping == MappingOfSource(src.name)
            IN  mapping # NoMapping =>
                    /\ mapping.DestinationTableIdentifier \in DOMAIN processed.result
                    /\ processed.result[mapping.DestinationTableIdentifier].Columns =
                          SelectSeq(src.schema.Columns,
                                    LAMBDA column : column.Name \notin mapping.Exclude)

\* the stored schema is the one the mapping stores without the names of
\* Exclude that match no source column
UnknownExcludesChangeNothing ==
    processed.called =>
        \A i \in DOMAIN processed.tableNameSchemaMapping :
            LET src == processed.tableNameSchemaMapping[i]
                mapping == MappingOfSource(src.name)
            IN  mapping # NoMapping =>
                    processed.result[mapping.DestinationTableIdentifier] =
                        ProcessedEntry(
                            << [mapping EXCEPT !.Exclude = KnownExcludes(mapping, src.schema)] >>,
                            src.name, src.schema).schema

\* the call leaves the schemas it was given as they were
InputNotModified ==
    processed.called => processed.after = processed.tableNameSchemaMapping

\* C30: for every source table with a table mapping the processed schema
\* mapping holds, under the destination table name of the mapping, a schema
\* whose columns are the source columns not named in Exclude, in source
\* order; names of Exclude that match no source column change nothing; the
\* schemas given to the call are not modified.
C30_ExcludeProcessing ==
    /\ StoresNonExcludedColumns
    /\ UnknownExcludesChangeNothing
    /\ InputNotModified

\* C40: for a mapping with a non-empty Exclude the stored PrimaryKeyColumns is
\* the PrimaryKeyColumns of the source schema without the excluded names, in
\* the order of the source primary key.
C40_PrimaryKeyOrderKept ==
    processed.called =>
        \A i \in DOMAIN processed.tableNameSchemaMapping :
            LET src == processed.tableNameSchemaMapping[i]
                mapping == MappingOfSource(src.name)
            IN  (mapping # NoMapping /\ mapping.Exclude # {}) =>
                    processed.result[mapping.DestinationTableIdentifier].PrimaryKeyColumns =
                        SelectSeq(src.schema.PrimaryKeyColumns,
                                  LAMBDA name : name \notin mapping.Exclude)

\* C36: invocations run one at a time, each with a sync batch id that may be
\* older than the pointer: last_normalize_batch_id never decreases.
C36_PointerNeverDecreases ==
    [][lastNorm' >= lastNorm]_vars

\* an invocation with a stale sync batch id has returned after the pointer
\* had passed that id
C36_Witness ==
    /\ ret.kind = "ok"
    /\ ret.norm = lastNorm
    /\ ret.sync < lastNorm
    /\ lastNorm > 0

\* C35: in every execution of NormalizeRecords the plan channel is closed at
\* most once and the producer never sends on it once it is closed, whether
\* the producer completes, fails at a type conversion or observes the
\* cancellation at a send.
C35_ClosedOnceNoSendAfter ==
    /\ [](\A i \in DOMAIN invs : invs[i].closes <= 1 /\ ~invs[i].sentClosed)
    /\ [][ProducerSend => ~invs[co.id].closed]_vars

\* the producer has sent plans, observed the cancellation at a later send
\* and closed the channel, and a worker of the invocation is still running
C35_Witness ==
    /\ co.pc = "idle"
    /\ ret.kind = "err"
    /\ ret.nplans > 0
    /\ \E i \in DOMAIN invs :
          /\ invs[i].closes = 1
          /\ invs[i].cause # NoErr
          /\ ret.err = invs[i].cause

\* C34: every invocation of NormalizeRecords returns, whatever the number of
\* workers and plans and whichever workers fail at connect or at a query,
\* when every connect, query and catalog call returns.
C34_InvocationReturns ==
    (co.pc # "idle") ~> (co.pc = "idle")

\* a worker failed to connect while the producer was handing out plans, and
\* the invocation has returned that error
C34_Witness ==
    /\ co.pc = "idle"
    /\ ret.kind = "err"
    /\ ret.err.kind = "connect"
    /\ ret.nplans > 0

\* the Close calls of the sequence so far, in order
CloseCalls == SelectSeq(procs.calls, LAMBDA c : c.op = "Close")

\* C31: when every Close call so far carried a non-nil error, no call has
\* panicked, Records has been closed exactly once, and Err() is the error of
\* the first Close call.
C31_ErrorClosesKeepFirst ==
    (CloseCalls # << >> /\ \A i \in DOMAIN CloseCalls : CloseCalls[i].arg # NoErr) =>
        /\ ~Panicked
        /\ stream.Records = 1
        /\ stream.err = CloseCalls[1].arg

\* two Close calls with different errors
C31_Witness ==
    /\ Len(CloseCalls) >= 2
    /\ CloseCalls[1].arg \in StreamErrs
    /\ CloseCalls[2].arg \in StreamErrs
    /\ CloseCalls[2].arg # CloseCalls[1].arg

\* the step is a call of Close(nil) on a stream that an earlier Close has
\* given an error, and the call neither panics nor changes the stream
NilCloseAfterErrorIsNoOp ==
    LET n == Len(procs'.calls)
    IN  (/\ n = Len(procs.calls) + 1
         /\ procs'.calls[n].op = "Close"
         /\ procs'.calls[n].arg = NoErr
         /\ stream.err # NoErr)
            => (~procs'.calls[n].panic /\ stream' = stream)

LaterSetSchemaIsNoOp ==
    LET n == Len(procs'.calls)
    IN  (/\ n = Len(procs.calls) + 1
         /\ procs'.calls[n].op = "SetSchema"
         /\ procs.calls # << >>)
            => (~procs'.calls[n].panic /\ stream' = stream)

\* the schema the first call of the sequence leaves
FirstSchema ==
    IF procs.calls[1].op = "SetSchema" THEN procs.calls[1].arg ELSE EmptySchema

\* C38: over any sequence of SetSchema and Close calls the schema latch is
\* closed by the first call and never again, the schema kept is that of the
\* first call (the empty schema when it is a Close), later SetSchema calls
\* change nothing, and Schema() returns exactly when a first call has been
\* made, with the schema kept.
C38_SchemaLatchOnce ==
    /\ [](stream.schemaLatch = IF procs.calls = << >> THEN 0 ELSE 1)
    /\ [](procs.calls # << >> => (stream.schemaSet /\ stream.schema = FirstSchema))
    /\ [][LaterSetSchemaIsNoOp]_vars
    /\ []((ENABLED SchemaReturns) <=> (procs.calls # << >> /\ procs.reader.pc = "blocked"))
    /\ [](procs.reader.pc = "returned" =>
            (procs.calls # << >> /\ procs.reader.schema = FirstSchema))

\* Schema() has returned the schema of the first SetSchema after a second
\* SetSchema with another schema and a Close
C38_Witness ==
    /\ Len(procs.calls) >= 3
    /\ procs.calls[1].op = "SetSchema"
    /\ procs.calls[2].op = "SetSchema"
    /\ procs.calls[2].arg # procs.calls[1].arg
    /\ procs.calls[3].op = "Close"
    /\ procs.reader.pc = "returned"
    /\ procs.reader.schema = procs.calls[1].arg

\* C39: while FeedToQRecordStream runs in its goroutine and another goroutine
\* calls Close, with nil or with an error, before, during or after the feed,
\* no goroutine sends on the closed Records channel or closes it a second
\* time.
C39_FeedAndCloseNeverPanic ==
    /\ procs.feed.panic \notin {"send on closed Records", "close of closed Records"}
    /\ procs.closer.panic # "close of closed Records"
    /\ stream.Records <= 1

\* C33: for one alert key and alert config id, rows are inserted at least one
\* alerting gap apart whatever the calls and their interleaving, a call
\* returns true only with its row inserted, and with a gap of 0 nothing is
\* inserted and every call returns false.
C33_AlertsOneGapApart ==
    /\ \A r1, r2 \in alerting.rows :
          (r1 # r2 /\ r1.key = r2.key /\ r1.cfg = r2.cfg /\ r1.created <= r2.created)
              => r2.created - r1.created >= alerting.gap
    /\ \A res \in alerting.results :
          res.value => \E r \in alerting.rows :
                          r.call = res.call /\ r.cfg = res.cfg /\ r.key = res.key
    /\ alerting.gap = 0 =>
          (alerting.rows = {} /\ \A res \in alerting.results : ~res.value)

\* C37: for a call whose slot lag is not above the threshold that applies to
\* a sender, no threshold alert is sent to the sender and no threshold alert
\* row is inserted for it.
C37_BelowThresholdLeavesNoRow ==
    /\ \A r \in alerting.sent :
          r.key = "threshold" => r.lag > ThresholdOf(AlertSenders[r.cfg])
    /\ \A r \in alerting.rows :
          r.key = "threshold" => r.lag > ThresholdOf(AlertSenders[r.cfg])
====
